---- MODULE Spec2Model ----
(***************************************************************************)
(* A model of the unbikit BIK decoder (src/src/bik-decoder.ts, the second  *)
(* BikVideoDecoder of src/src/bik-video-decoder.ts and the BikAudioDecoder *)
(* of src/unnamed/part_008).                                               *)
(*                                                                         *)
(* Representation.  Byte positions, sizes and the typed-array arithmetic   *)
(* (subarray clamping, out-of-range reads and writes) are modelled as in   *)
(* the code.  The entropy-coded payloads are represented by the values     *)
(* the row readers decode from them: a video payload is, per coded plane,  *)
(* the list of block operations the plane decoder dispatches on, and an    *)
(* audio payload is the list of its transform blocks, each given by the    *)
(* first sample and the first overlap-tail sample of the inverse           *)
(* transform (both are functions of the payload bits alone, since every    *)
(* coefficient is rewritten for every block).                              *)
(***************************************************************************)
EXTENDS Integers, Sequences, FiniteSets, TLC

\* ------------------------------------------------------------------ bounds
MaxFrames == 2      \* frames in a file
MaxDim == 3         \* coded width and height range over 1..MaxDim
MaxCalls == 3       \* getNextFrame invocations made by the caller
MaxSkip == 2        \* largest argument given to skipFrames
MaxBlocks == 2      \* transform blocks in one audio packet
MaxReads == 1       \* readBits calls made on one bit reader
MaxRows == 3        \* block rows of one plane
MaxWord == 5        \* bits in the word a coefficient stream repeats
MaxSource == 6      \* bytes of a source read through the byte layer alone
MaxChunk == 3       \* bytes of a chunk of such a source
MaxPayload == 13    \* bytes of an audio packet decoded bit by bit
ChunkSize == 16     \* bytes delivered by one read() of the source stream

\* ------------------------------------------------------- program constants
MagicBIK == 4934978            \* 0x004b4942
MagicKB2 == 3293771            \* 0x0032424b
FixedHeaderSize == 44

BIK_BLOCK_TYPE_SKIP == 0
BIK_BLOCK_TYPE_SCALED == 1
BIK_BLOCK_TYPE_MOTION == 2
BIK_BLOCK_TYPE_FILL == 6


\* ----------------------------------------------------------------- helpers
Min(a, b) == IF a < b THEN a ELSE b
Max(a, b) == IF a > b THEN a ELSE b
\* A sequence given by a function on 1..n, as an explicit tuple.
Tuple(s) == SubSeq(s, 1, Len(s))
Zeros(n) == Tuple([i \in 1..n |-> 0])

RECURSIVE SumSeq(_)
SumSeq(s) == IF s = <<>> THEN 0 ELSE Head(s) + SumSeq(Tail(s))

\* TypedArray.prototype.subarray(begin, end) on an array of length n: a
\* negative argument counts from the end, both ends are clamped to 0..n, an
\* inverted range is empty.  The result is the half-open range it views.
RelIndex(n, k) == IF k < 0 THEN Max(n + k, 0) ELSE Min(k, n)
SubArrayRange(n, begin, end) ==
  LET b == RelIndex(n, begin)
      e == RelIndex(n, end)
  IN  [lo |-> b, hi |-> Max(b, e)]

\* ------------------------------------------------------------- input files
\* A block operation: the block type taken from the BLOCK_TYPES stream and
\* the parameter values its handler takes (COLORS value v, X_OFF/Y_OFF
\* values x and y, SUB_BLOCK_TYPES value sub).
Op(t, v, x, y, sub) == [type |-> t, v |-> v, x |-> x, y |-> y, sub |-> sub]
Skip == Op(BIK_BLOCK_TYPE_SKIP, 0, 0, 0, 0)
Fill(v) == Op(BIK_BLOCK_TYPE_FILL, v, 0, 0, 0)
Motion(x, y) == Op(BIK_BLOCK_TYPE_MOTION, 0, x, y, 0)
Scaled(sub, v) == Op(BIK_BLOCK_TYPE_SCALED, v, 0, 0, sub)
BadBlock == Op(10, 0, 0, 0, 0)

\* An audio transform block: coeffs[0] and coeffs[frameLen - overlapLen] of
\* channel 0 after the inverse transform, before overlap mixing.
ABlock(h, t) == [head |-> h, tail |-> t]
BlockA == ABlock(1, 3)
BlockB == ABlock(2, 4)

\* One audio segment of a frame body: the u32 trackSize field and the
\* transform blocks its payload codes.
Seg(size, blocks) == [size |-> size, blocks |-> blocks]

\* A frame body of S bytes: its audio segments in track order, then the
\* video payload, given as the plane programs in coded order.
FrameBody(S, segs, planes) == [size |-> S, segs |-> segs, planes |-> planes]

SegStart(frame, i) ==
  SumSeq([j \in 1..(i - 1) |-> frame.segs[j].size + 4])
AudioBytes(frame) == SegStart(frame, Len(frame.segs) + 1)

\* The u32 stored at byte position pos of the frame body: a trackSize field
\* at the start of a segment; any other position holds unrelated data,
\* read here as 0.
U32At(frame, pos) ==
  IF \E i \in 1..Len(frame.segs) : SegStart(frame, i) = pos
  THEN frame.segs[CHOOSE i \in 1..Len(frame.segs) : SegStart(frame, i) = pos].size
  ELSE 0

\* What a decoder finds in the bytes [lo, hi) of the frame body.
NoBlocks == <<>>
GarbageBlocks == <<ABlock(9, 9)>>
AudioAt(frame, lo, hi) ==
  IF hi <= lo THEN NoBlocks
  ELSE IF \E i \in 1..Len(frame.segs) :
            /\ lo = SegStart(frame, i) + 8
            /\ hi = SegStart(frame, i) + 4 + frame.segs[i].size
       THEN frame.segs[CHOOSE i \in 1..Len(frame.segs) :
                        /\ lo = SegStart(frame, i) + 8
                        /\ hi = SegStart(frame, i) + 4 + frame.segs[i].size].blocks
       ELSE GarbageBlocks
GarbagePlanes == << <<BadBlock>> >>
VideoAt(frame, lo, hi) ==
  IF lo = AudioBytes(frame) /\ hi = frame.size THEN frame.planes
  ELSE GarbagePlanes

\* A frame as an encoder lays it out: every segment carries numSamples and
\* 4 bytes per transform block, the video payload 4 bytes per coded plane
\* (a block and a plane both end on a 32-bit boundary).
MkSeg(blocks) == Seg(4 + 4 * Len(blocks), blocks)
MkFrame(blockLists, planes) ==
  LET segs == [i \in 1..Len(blockLists) |-> MkSeg(blockLists[i])]
  IN  FrameBody(SumSeq([i \in 1..Len(segs) |-> segs[i].size + 4]) + 4 * Len(planes),
                segs, planes)

\* The container: fixed header fields, audio-track table, frame bodies, the
\* number of bytes the source delivers before its stream ends and the size
\* of the chunks it delivers them in.
TableStart(f) == FixedHeaderSize + 12 * f.numAudioTracks
FramesStart(f) == TableStart(f) + 4 * (f.numFrames + 1)
FrameOffset(f, k) ==   \* k in 0..numFrames
  FramesStart(f) + SumSeq([j \in 1..k |-> f.frames[j].size])
FullLen(f) == FrameOffset(f, f.numFrames)
\* Frame-offset table entry k (0-based): the offset, bit 0 set on frame 0.
TableEntry(f, k) == FrameOffset(f, k) + (IF k = 0 /\ f.numFrames > 0 THEN 1 ELSE 0)

MkFile(magic24, sub, w, h, alpha, ntracks, frames, cut) ==
  LET f == [magic24 |-> magic24, subVersion |-> sub, width |-> w, height |-> h,
            hasAlpha |-> alpha, numAudioTracks |-> ntracks,
            numFrames |-> Len(frames), frames |-> frames, len |-> 0,
            chunk |-> ChunkSize]
  IN  [f EXCEPT !.len = FullLen(f) - cut]

\* ------------------------------------------------------- byte-source layer
\* The read state of a BikDecoder: whether #streamReader is set, the source
\* offset of the next byte the stream delivers, #bufPos, the length of
\* #bufBytes (-1 when it is null) and the source offset the first buffered
\* byte really came from.
NullBuf == -1
InitIO == [reader |-> FALSE, streamPos |-> 0, bufPos |-> 0, bufLen |-> NullBuf,
           bufAbs |-> 0]

\* One read() of the stream of source src, which delivers src.len bytes in
\* chunks of src.chunk bytes: the length of the chunk delivered, 0 when the
\* stream is done.
ChunkLen(io, src) ==
  IF io.streamPos >= src.len THEN 0 ELSE Min(src.chunk, src.len - io.streamPos)

seek_keepPos(io, pos) ==
  IF pos < 0 THEN io
  ELSE IF io.bufLen # NullBuf /\ pos = io.bufPos THEN io
  ELSE IF io.bufLen # NullBuf /\ pos > io.bufPos /\ pos < io.bufPos + io.bufLen
       THEN [io EXCEPT !.bufLen = io.bufLen - (pos - io.bufPos),
                       !.bufAbs = io.bufAbs + (pos - io.bufPos)]
  ELSE [reader |-> TRUE, streamPos |-> pos, bufPos |-> pos, bufLen |-> NullBuf,
        bufAbs |-> pos]
seek(io, pos) ==
  IF pos < 0 THEN io
  ELSE IF io.bufLen # NullBuf /\ pos = io.bufPos THEN io
  ELSE IF io.bufLen # NullBuf /\ pos > io.bufPos /\ pos < io.bufPos + io.bufLen
       THEN [io EXCEPT !.bufLen = io.bufLen - (pos - io.bufPos),
                       !.bufAbs = io.bufAbs + (pos - io.bufPos),
                       !.bufPos = pos]
  ELSE [reader |-> TRUE, streamPos |-> pos, bufPos |-> pos, bufLen |-> NullBuf,
        bufAbs |-> pos]

\* The loop of #readBytes that appends chunks until len bytes are buffered
\* or the stream is done; ended tells which.
RECURSIVE FillBuf(_, _, _)
FillBuf(io, len, src) ==
  IF len <= io.bufLen THEN [io |-> io, ended |-> FALSE]
  ELSE IF ChunkLen(io, src) = 0 THEN [io |-> io, ended |-> TRUE]
  ELSE FillBuf([io EXCEPT !.bufLen = io.bufLen + ChunkLen(io, src),
                          !.streamPos = io.streamPos + ChunkLen(io, src)], len, src)

\* The first read() of #readBytes when nothing is buffered: the chunk of c0
\* bytes becomes #bufBytes.
FirstChunk(io, c0) ==
  IF io.bufLen = NullBuf
  THEN [io EXCEPT !.bufLen = c0, !.bufAbs = io.streamPos, !.streamPos = io.streamPos + c0]
  ELSE io

\* The end of #readBytes with the buffer state b: the whole buffer when the
\* stream is done or it holds exactly len bytes, else its first len bytes.
TakeBytes(b, ended, len) ==
  IF ended \/ b.bufLen = len
  THEN [io |-> [b EXCEPT !.bufPos = b.bufPos + b.bufLen, !.bufAbs = b.bufAbs + b.bufLen,
                         !.bufLen = NullBuf],
        got |-> b.bufLen, at |-> b.bufAbs]
  ELSE [io |-> [b EXCEPT !.bufPos = b.bufPos + len, !.bufAbs = b.bufAbs + len,
                         !.bufLen = b.bufLen - len],
        got |-> len, at |-> b.bufAbs]
TakeFilled(r, len) == TakeBytes(r.io, r.ended, len)

\* #readBytes(len): the new read state, the number of bytes returned (-1 for
\* null) and the source offset of the first of them.
readBytes(io, len, src) ==
  IF ~io.reader \/ len < 1 THEN [io |-> io, got |-> -1, at |-> 0]
  ELSE IF io.bufLen = NullBuf /\ ChunkLen(io, src) = 0
  THEN [io |-> io, got |-> -1, at |-> 0]
  ELSE TakeFilled(FillBuf(FirstChunk(io, ChunkLen(io, src)), len, src), len)

\* #ensureReadBytes(len): ok is FALSE when it throws.
Ensured_short(r, len) == [io |-> r.io, ok |-> r.got # -1, at |-> r.at]
Ensured(r, len) == [io |-> r.io, ok |-> (r.got # -1 /\ r.got = len), at |-> r.at]
ensureReadBytes(io, len, src) == Ensured(readBytes(io, len, src), len)

\* ------------------------------------------------------------ video decoder
CeilDiv(a, b) == (a + b - 1) \div b
\* x << k for 0 <= x * 2^k < 2^31, the range of every size in this model.
Shl(x, k) == x * (2 ^ k)

numPixels(w, h) == w * h
uvSize_floor(w, h) == (w \div 2) * (h \div 2)
uvSize(w, h) == ((w + 1) \div 2) * ((h + 1) \div 2)
frameSize(w, h, alpha) ==
  Shl(numPixels(w, h), IF alpha THEN 1 ELSE 0) + Shl(uvSize(w, h), 1)

\* BikVideoDecoder state: the header values it was built with and #prevData,
\* a view of bytes prevOff .. prevOff + prevLen - 1 of the buffer prevData.
\* The view is the whole buffer until #decodePlane throws between narrowing
\* it to a plane and restoring it.
NewVideoDecoder(w, h, version, alpha, swapped) ==
  [width |-> w, height |-> h, version |-> version, hasAlpha |-> alpha,
   hasSwappedUVPlanes |-> swapped, prevData |-> Zeros(frameSize(w, h, alpha)),
   prevOff |-> 0, prevLen |-> frameSize(w, h, alpha)]
prevView(vd) == SubSeq(vd.prevData, vd.prevOff + 1, vd.prevOff + vd.prevLen)

lineSizeOf(w) == <<w, w \div 2, w \div 2, w>>

createFrame(vd) ==
  [width |-> vd.width, height |-> vd.height, yuv |-> prevView(vd),
   lineSize |-> lineSizeOf(vd.width)]

\* Reads outside a typed array give undefined, stored into a byte as 0; writes
\* outside it are dropped.  Positions are 0-based, sequences 1-based.
ByteAt(buf, j) == IF j >= 0 /\ j < Len(buf) THEN buf[j + 1] ELSE 0
InSquare(j, ptr, stride, size) ==
  \E y \in 0..(size - 1) : j - ptr - y * stride \in 0..(size - 1)

\* #decodeFillBlock(size) with the COLORS value v.
decodeFillBlock(data, dataPtr, stride, size, v) ==
  Tuple([i \in 1..Len(data) |->
           IF InSquare(i - 1, dataPtr, stride, size) THEN v ELSE data[i]])

\* #copyBlock(srcOffset): every position written receives the previous
\* frame's byte that lies indexDiff before it.
copyBlock(data, prevData, dataPtr, stride, srcOffset) ==
  LET indexDiff == dataPtr - srcOffset
  IN  IF indexDiff = 0 THEN data
      ELSE Tuple([i \in 1..Len(data) |->
                    IF InSquare(i - 1, dataPtr, stride, 8)
                    THEN ByteAt(prevData, i - 1 - indexDiff) ELSE data[i]])

decodeMotionBlock(data, prevData, dataPtr, stride, op) ==
  copyBlock(data, prevData, dataPtr, stride, dataPtr + op.x + op.y * stride)

\* #decodeScaledBlock with the SUB_BLOCK_TYPES value op.sub: ok is FALSE when
\* it throws.  Of the five sub-block types only FILL is in the input domain.
ValidSubBlockTypes == {3, 5, 6, 8, 9}
decodeScaledBlock_lenient(data, dataPtr, stride, op) ==
  CASE op.sub = BIK_BLOCK_TYPE_FILL ->
         [ok |-> TRUE, data |-> decodeFillBlock(data, dataPtr, stride, 16, op.v)]
    [] op.sub \notin ValidSubBlockTypes -> [ok |-> TRUE, data |-> data]
decodeScaledBlock(data, dataPtr, stride, op) ==
  CASE op.sub = BIK_BLOCK_TYPE_FILL ->
         [ok |-> TRUE, data |-> decodeFillBlock(data, dataPtr, stride, 16, op.v)]
    [] op.sub \notin ValidSubBlockTypes -> [ok |-> FALSE, data |-> data]

\* The block-type item the plane loop takes at index k; past the values the
\* row reader decoded, the item array still holds 0.
NextOp(prog, k) == IF k <= Len(prog) THEN prog[k] ELSE Skip

\* The two nested loops of #decodePlane over one plane buffer.  st holds the
\* plane bytes, #dataPtr, the index of the next block-type item and whether
\* no handler has thrown; blockYPos is the 1-based row as in the code.
RECURSIVE BlockLoop(_, _, _, _, _, _, _)
BlockLoop(st, prog, prevData, stride, blockWidth, blockYPos, blockXPos) ==
  IF ~st.ok \/ blockXPos >= blockWidth THEN st
  ELSE
    LET op == NextOp(prog, st.k)
        t == op.type
    IN  IF t = BIK_BLOCK_TYPE_SCALED
        THEN LET r == IF blockYPos % 2 = 1
                      THEN decodeScaledBlock(st.data, st.dataPtr, stride, op)
                      ELSE [ok |-> TRUE, data |-> st.data]
             IN  BlockLoop([data |-> r.data,
                            dataPtr |-> IF r.ok THEN st.dataPtr + 16 ELSE st.dataPtr,
                            k |-> st.k + 1, ok |-> r.ok],
                           prog, prevData, stride, blockWidth, blockYPos, blockXPos + 2)
        ELSE IF t \notin 0..9
        THEN [st EXCEPT !.ok = FALSE, !.k = st.k + 1]
        ELSE
          LET d == CASE t = BIK_BLOCK_TYPE_SKIP -> st.data
                     [] t = BIK_BLOCK_TYPE_MOTION ->
                          decodeMotionBlock(st.data, prevData, st.dataPtr, stride, op)
                     [] t = BIK_BLOCK_TYPE_FILL ->
                          decodeFillBlock(st.data, st.dataPtr, stride, 8, op.v)
          IN  BlockLoop([data |-> d, dataPtr |-> st.dataPtr + 8, k |-> st.k + 1,
                         ok |-> TRUE],
                        prog, prevData, stride, blockWidth, blockYPos, blockXPos + 1)

\* this.#dataPtr += blockLineIncr, at the end of a block row
NextRow(st, stride) == [st EXCEPT !.dataPtr = st.dataPtr + stride * 7]
RECURSIVE RowLoop(_, _, _, _, _, _, _)
RowLoop(st, prog, prevData, stride, blockWidth, blockHeight, blockYPos) ==
  IF ~st.ok \/ blockYPos > blockHeight THEN st
  ELSE RowLoop(NextRow(BlockLoop(st, prog, prevData, stride, blockWidth, blockYPos, 0),
                       stride),
               prog, prevData, stride, blockWidth, blockHeight, blockYPos + 1)

planeOffsetOf(vd, planeIndex) ==
  CASE planeIndex = 0 -> 0
    [] planeIndex = 1 -> numPixels(vd.width, vd.height)
    [] planeIndex = 2 -> numPixels(vd.width, vd.height) + uvSize(vd.width, vd.height)
    [] planeIndex = 3 -> numPixels(vd.width, vd.height) + Shl(uvSize(vd.width, vd.height), 1)
isChromaPlane(planeIndex) == planeIndex = 1 \/ planeIndex = 2
planeLenOf(vd, planeIndex) ==
  IF isChromaPlane(planeIndex) THEN uvSize(vd.width, vd.height)
  ELSE numPixels(vd.width, vd.height)
blockWidthOf(vd, planeIndex) ==
  IF isChromaPlane(planeIndex) THEN CeilDiv(vd.width, 16) ELSE CeilDiv(vd.width, 8)
blockHeightOf(vd, planeIndex) ==
  IF isChromaPlane(planeIndex) THEN CeilDiv(vd.height, 16) ELSE CeilDiv(vd.height, 8)

\* The frame bytes once the plane loops ended in state r: the plane buffer is
\* a view of bytes off .. off + n - 1 of the frame buffer.  When a handler
\* threw, #prevData is left as the view of the same plane.
PlaneResult(yuv, off, n, stride, r) ==
  [ok |-> r.ok, stride |-> stride,
   yuv |-> SubSeq(yuv, 1, off) \o r.data \o SubSeq(yuv, off + n + 1, Len(yuv)),
   view |-> IF r.ok THEN <<>> ELSE <<[off |-> off, len |-> n]>>]
PlaneView(buf, off, n) == SubSeq(buf, off + 1, off + n)

\* #decodePlane(frame, planeIndex) on the frame bytes yuv, with the plane
\* program prog: the new frame bytes, the stride it used, whether it returned
\* and the view #prevData was left as when it threw.  Taking the plane view
\* of a frame buffer that is too short throws a RangeError.
decodePlane(vd, yuv, lineSize, planeIndex, prog) ==
  IF planeOffsetOf(vd, planeIndex) + planeLenOf(vd, planeIndex) > Len(yuv)
  THEN [ok |-> FALSE, stride |-> lineSize[planeIndex + 1], yuv |-> yuv, view |-> <<>>]
  ELSE
  PlaneResult(yuv, planeOffsetOf(vd, planeIndex), planeLenOf(vd, planeIndex),
              lineSize[planeIndex + 1],
              RowLoop([data |-> PlaneView(yuv, planeOffsetOf(vd, planeIndex),
                                          planeLenOf(vd, planeIndex)),
                       dataPtr |-> 0, k |-> 1, ok |-> TRUE],
                      prog,
                      PlaneView(vd.prevData, planeOffsetOf(vd, planeIndex),
                                planeLenOf(vd, planeIndex)),
                      lineSize[planeIndex + 1],
                      blockWidthOf(vd, planeIndex), blockHeightOf(vd, planeIndex), 1))

\* The planes in coded order: alpha first when present, then Y and the two
\* chroma planes, exchanged when #hasSwappedUVPlanes.
codedPlanes_straight(vd) == (IF vd.hasAlpha THEN <<3>> ELSE <<>>) \o <<0, 1, 2>>
codedPlanes(vd) ==
  (IF vd.hasAlpha THEN <<3>> ELSE <<>>) \o
  <<0, IF vd.hasSwappedUVPlanes THEN 2 ELSE 1, IF vd.hasSwappedUVPlanes THEN 1 ELSE 2>>

NoStrides == <<-1, -1, -1, -1>>

\* One #decodePlane call of decodeFrame_ with result r: st holds the frame
\* bytes, the strides used so far, whether no call has thrown, and whether
\* the loop over the colour planes has stopped.
PlaneStep_noBreak(st, planeIndex, r, last) ==
  [ok |-> r.ok, yuv |-> r.yuv, stop |-> ~r.ok,
   strides |-> [st.strides EXCEPT ![planeIndex + 1] = r.stride], view |-> r.view]
PlaneStep(st, planeIndex, r, last) ==
  [ok |-> r.ok, yuv |-> r.yuv, stop |-> ~r.ok \/ (planeIndex # 3 /\ last),
   strides |-> [st.strides EXCEPT ![planeIndex + 1] = r.stride],
   view |-> r.view]

\* The plane sequence of decodeFrame_: the j-th coded plane is decoded with
\* the j-th plane program of the payload; after a colour plane the loop
\* stops when the payload has no bits left, that is no further program.
RECURSIVE PlaneSeq(_, _, _, _, _)
PlaneSeq(vd, st, lineSize, planes, j) ==
  IF st.stop \/ j > Len(codedPlanes(vd)) THEN st
  ELSE PlaneSeq(vd,
                PlaneStep(st, codedPlanes(vd)[j],
                          decodePlane(vd, st.yuv, lineSize, codedPlanes(vd)[j],
                                      IF j <= Len(planes) THEN planes[j] ELSE <<>>),
                          j >= Len(planes)),
                lineSize, planes, j + 1)

\* TypedArray.prototype.set(src) on dst: throws when src is longer.
CanSet(dst, src) == Len(src) <= Len(dst)
SetBytes_keep(dst, src) == dst
SetBytes(dst, src) == src \o SubSeq(dst, Len(src) + 1, Len(dst))
\* view.set(src) on the view of buf that starts at off
WriteAt(buf, off, src) ==
  SubSeq(buf, 1, off) \o src \o SubSeq(buf, off + Len(src) + 1, Len(buf))

\* frame = existingFrame; frame.yuv.set(this.#prevData)
reuseFrame_asIs(vd, existingFrame) == existingFrame
reuseFrame(vd, existingFrame) ==
  [existingFrame EXCEPT !.yuv = SetBytes(existingFrame.yuv, prevView(vd))]

\* The end of decodeFrame_ with the plane sequence in state r:
\* this.#prevData.set(frame.yuv), which throws when the frame is longer than
\* the view, and the return, when no plane threw.
Narrowed(vd, view) ==
  IF view = <<>> THEN vd ELSE [vd EXCEPT !.prevOff = view[1].off, !.prevLen = view[1].len]
FrameResult(vd, frame, r) ==
  IF r.ok /\ Len(r.yuv) <= vd.prevLen
  THEN [ok |-> TRUE, frame |-> [frame EXCEPT !.yuv = r.yuv], strides |-> r.strides,
        vd |-> [vd EXCEPT !.prevData = WriteAt(vd.prevData, vd.prevOff, r.yuv)]]
  ELSE [ok |-> FALSE, frame |-> [frame EXCEPT !.yuv = r.yuv], strides |-> r.strides,
        vd |-> Narrowed(vd, r.view)]
DecodeInto(vd, planes, frame) ==
  FrameResult(vd, frame,
              PlaneSeq(vd, [ok |-> TRUE, yuv |-> frame.yuv, stop |-> FALSE,
                            strides |-> NoStrides, view |-> <<>>],
                       frame.lineSize, planes, 1))

\* decodeFrame_(data, existingFrame): existing is <<>> or <<frame>>.  The
\* result tells whether it returned, the frame (as far as it was written
\* when it threw), the decoder afterwards and the strides used per plane.
decodeFrame_(vd, planes, existing) ==
  IF existing # <<>> /\ ~CanSet(existing[1].yuv, prevView(vd))
  THEN [ok |-> FALSE, frame |-> existing[1], vd |-> vd, strides |-> NoStrides]
  ELSE DecodeInto(vd, planes,
                  IF existing # <<>> THEN reuseFrame(vd, existing[1]) ELSE createFrame(vd))

\* The colour byte #readColors stores for the decoded byte v.
remapColor_flip(version, v) == IF version < 105 THEN 255 - v ELSE v
remapColor(version, v) ==
  IF version < 105 THEN (IF v > 127 THEN 256 - v ELSE v + 128) ELSE v
\* The same step in the earlier copy of the decoder: sign = v & 0x80 ? 0xff
\* : 0; v = ((v & 0x7f) ^ sign) - sign; v += 0x80.
remapColorSigned(version, v) ==
  IF version < 105
  THEN (IF v >= 128 THEN (255 - (v % 128)) - 255 ELSE v % 128) + 128
  ELSE v
\* #readColors once #readCodedDataCount returned count: isRun is the bit
\* read next and raw the bytes (high nibble << 4 | low nibble) the loop
\* decodes, one for a run and count otherwise.  A run fills count items from
\* curDec with the one colour, otherwise each colour is stored in turn.
readColors(version, bpv, colLastValue, count, isRun, raw) ==
  IF count = 0 THEN [items |-> bpv.items, curDec |-> bpv.curDec, colLastValue |-> colLastValue]
  ELSE [items |-> [i \in 1..Len(bpv.items) |->
                     IF i > bpv.curDec /\ i <= bpv.curDec + count
                     THEN remapColor(version, raw[IF isRun THEN 1 ELSE i - bpv.curDec])
                     ELSE bpv.items[i]],
        curDec |-> bpv.curDec + count,
        colLastValue |-> raw[Len(raw)] \div 16]

\* ---------------------------------------------------------------- BitReader
\* A 32-bit integer is kept as the set of its set bit positions, so that the
\* shifts and the | of readBits_ are carried out as the 32-bit operations
\* they are; ToInt32 is the signed number the expression then denotes.
BitsOf(x) == {i \in 0..7 : (x \div (2 ^ i)) % 2 = 1}
ToInt32(S) ==
  SumSeq([i \in 1..31 |-> IF (i - 1) \in S THEN 2 ^ (i - 1) ELSE 0])
    - (IF 31 \in S THEN 2 ^ 30 ELSE 0) - (IF 31 \in S THEN 2 ^ 30 ELSE 0)

\* ((1 << bitsRemaining) - 1) & 0xff: the shift count is taken modulo 32.
MaskOf(bitsRemaining) ==
  IF bitsRemaining % 32 >= 8 THEN 255 ELSE 2 ^ (bitsRemaining % 32) - 1

\* One pass of the do-while loop of readBits_(n): st holds result, pos,
\* bitPos, bitsRead and bitsRemaining.
ReadStep(buffer, st) ==
  [st EXCEPT !.result =
     st.result \cup
       {i + st.bitsRead :
          i \in {b \in BitsOf((ByteAt(buffer, st.pos) \div (2 ^ st.bitPos))
                               % (MaskOf(st.bitsRemaining) + 1)) :
                   b + st.bitsRead <= 31}}]
RECURSIVE ReadLoop(_, _, _)
ReadLoop(buffer, n, st) ==
  IF st.bitPos + st.bitsRemaining > 7
  THEN IF st.bitsRead + (8 - st.bitPos) < n
       THEN ReadLoop(buffer, n,
                     [result |-> ReadStep(buffer, st).result, pos |-> st.pos + 1,
                      bitPos |-> 0, bitsRead |-> st.bitsRead + (8 - st.bitPos),
                      bitsRemaining |-> st.bitsRemaining - (8 - st.bitPos)])
       ELSE [result |-> ReadStep(buffer, st).result, pos |-> st.pos + 1, bitPos |-> 0,
             bitsRead |-> st.bitsRead + (8 - st.bitPos),
             bitsRemaining |-> st.bitsRemaining - (8 - st.bitPos)]
  ELSE [ReadStep(buffer, st) EXCEPT !.bitPos = st.bitPos + st.bitsRemaining]
\* readBits_(n, peek) on a reader at byte pos, bit bitPos of buffer: the
\* number returned and the position afterwards.
ReadDone(rd, peek, st) ==
  [value |-> ToInt32(st.result),
   pos |-> IF peek THEN rd.pos ELSE st.pos,
   bitPos |-> IF peek THEN rd.bitPos ELSE st.bitPos]
readBits_(rd, n, peek) ==
  ReadDone(rd, peek,
           ReadLoop(rd.buffer, n, [result |-> {}, pos |-> rd.pos, bitPos |-> rd.bitPos,
                                   bitsRead |-> 0, bitsRemaining |-> n]))
\* skip_(n): the position afterwards.
skip_(rd, n) ==
  IF n < 1 THEN [pos |-> rd.pos, bitPos |-> rd.bitPos]
  ELSE [pos |-> rd.pos + (rd.bitPos + n) \div 8, bitPos |-> (rd.bitPos + n) % 8]
tell_(rd) == rd.pos * 8 + rd.bitPos
\* align32_(): the position afterwards.
align32_(rd) == skip_(rd, (32 - (tell_(rd) % 32)) % 32)

\* if (this.#version > 104) reader.skip_(32), ahead of the alpha plane and
\* ahead of the Y plane: the position afterwards.
skipWord_fromH(version, rd) == IF version >= 104 THEN skip_(rd, 32) ELSE rd
skipWord(version, rd) == IF version > 104 THEN skip_(rd, 32) ELSE rd
\* The bit positions at which decodeFrame_ starts #decodePlane for the alpha
\* plane (<<>> without one) and for the Y plane, when the blocks of the alpha
\* plane take alphaBits bits; #decodePlane ends with align32_().
lumaStart(version, rd) == tell_(skipWord(version, rd))
planeStarts(version, hasAlpha, alphaBits, rd) ==
  IF hasAlpha
  THEN [alpha |-> <<tell_(skipWord(version, rd))>>,
        luma |-> lumaStart(version, align32_(skip_(skipWord(version, rd), alphaBits)))]
  ELSE [alpha |-> <<>>, luma |-> lumaStart(version, rd)]

\* ---------------------------------------------------------------- #readTree
\* The video bit stream as a sequence of bits in reading order; past its end
\* the reader gives 0.  A bit and an n-bit number, least significant bit
\* first, at position pos.
BitAt(bits, pos) == IF pos < Len(bits) THEN bits[pos + 1] ELSE 0
BitsAt(bits, pos, n) == SumSeq([i \in 1..n |-> BitAt(bits, pos + i - 1) * (2 ^ (i - 1))])

\* The k-th smallest value of 0..15 that is not in marked (tmp[i] = 0).
Unmarked(marked, k) ==
  CHOOSE x \in (0..15) \ marked : Cardinality({y \in (0..15) \ marked : y < x}) = k - 1
\* Order mode: len + 1 symbols read from the stream, then the values not
\* among them in rising order; a store at an index above 15 is dropped.
orderedMap(bits, pos, len) ==
  [i \in 1..16 |->
     IF i <= len + 1 THEN BitsAt(bits, pos + 4 * (i - 1), 4)
     ELSE Unmarked({BitsAt(bits, pos + 4 * j, 4) : j \in 0..len}, i - len - 1)]

\* #mergeTreeData(dest, src, src1Index, size1): the 2 * size1 values written
\* from dest[src1Index] on and the bit position afterwards; n1 and n2 values
\* are still to be taken from src at i1 and i2.
RECURSIVE mergeTreeData(_, _, _, _, _, _, _, _)
mergeTreeData(src, bits, pos, i1, n1, i2, n2, out) ==
  IF n1 > 0 /\ n2 > 0
  THEN IF BitAt(bits, pos) = 1
       THEN mergeTreeData(src, bits, pos + 1, i1, n1, i2 + 1, n2 - 1, Append(out, src[i2 + 1]))
       ELSE mergeTreeData(src, bits, pos + 1, i1 + 1, n1 - 1, i2, n2, Append(out, src[i1 + 1]))
  ELSE [out |-> out \o SubSeq(src, i1 + 1, i1 + n1) \o SubSeq(src, i2 + 1, i2 + n2),
        pos |-> pos]
\* One iteration of the shuffle: the loop over t with step size << 1.
RECURSIVE mergeRound(_, _, _, _, _, _)
mergeNext(src, bits, size, t, out, r) ==
  mergeRound(src, bits, r.pos, size, t + 2 * size, out \o r.out)
mergeRound(src, bits, pos, size, t, out) ==
  IF t >= 16 THEN [map |-> out, pos |-> pos]
  ELSE mergeNext(src, bits, size, t, out,
                 mergeTreeData(src, bits, pos, t, size, t + size, size, <<>>))
\* Iterations i..len of the shuffle, input and output exchanging roles.
RECURSIVE shuffle(_, _, _, _)
shuffle(bits, i, len, r) ==
  IF i > len THEN r
  ELSE shuffle(bits, i + 1, len, mergeRound(r.map, bits, r.pos, 2 ^ i, 0, <<>>))
\* The first iteration: adjacent pairs exchanged by one bit each.
swapPairs(bits, pos) ==
  [i \in 1..16 |->
     IF i % 2 = 1 THEN (i - 1) + BitAt(bits, pos + (i - 1) \div 2)
     ELSE (i - 2) + (1 - BitAt(bits, pos + (i - 2) \div 2))]

\* #readTree(tree) with the reader at bit 0 of bits: the index of the table
\* the tree is bound to, its symbolMap and the bit position afterwards.
readTree(bits) ==
  IF BitsAt(bits, 0, 4) = 0
  THEN [table |-> 0, symbolMap |-> [i \in 1..16 |-> i - 1], pos |-> 4]
  ELSE IF BitAt(bits, 4) = 1
  THEN [table |-> BitsAt(bits, 0, 4),
        symbolMap |-> orderedMap(bits, 8, BitsAt(bits, 5, 3)),
        pos |-> 8 + 4 * (BitsAt(bits, 5, 3) + 1)]
  ELSE [table |-> BitsAt(bits, 0, 4),
        symbolMap |-> shuffle(bits, 1, BitsAt(bits, 5, 2),
                              [map |-> swapPairs(bits, 7), pos |-> 15]).map,
        pos |-> shuffle(bits, 1, BitsAt(bits, 5, 2),
                        [map |-> swapPairs(bits, 7), pos |-> 15]).pos]

\* ------------------------------------------------------ parameter streams
\* blockParamValues.len_ of the RUN stream: ~~Math.log2(blockWidth * 48 +
\* 511) + 1.
runLenBits(blockWidth) ==
  1 + CHOOSE k \in 0..30 : 2 ^ k <= blockWidth * 48 + 511 /\ blockWidth * 48 + 511 < 2 ^ (k + 1)
\* #readCodedDataCount on a stream with curDec, curPtr and len, the reader at
\* bit pos: the count returned, curDec and the position afterwards.
readCodedDataCount_noSentinel(bpv, bits, pos) ==
  IF bpv.curDec < 0 \/ bpv.curDec > bpv.curPtr
  THEN [count |-> 0, curDec |-> bpv.curDec, pos |-> pos]
  ELSE [count |-> BitsAt(bits, pos, bpv.len), curDec |-> bpv.curDec, pos |-> pos + bpv.len]
readCodedDataCount(bpv, bits, pos) ==
  IF bpv.curDec < 0 \/ bpv.curDec > bpv.curPtr
  THEN [count |-> 0, curDec |-> bpv.curDec, pos |-> pos]
  ELSE [count |-> BitsAt(bits, pos, bpv.len),
        curDec |-> IF BitsAt(bits, pos, bpv.len) = 0 THEN -1 ELSE bpv.curDec,
        pos |-> pos + bpv.len]
\* #readRuns once #readCodedDataCount returned c: nothing for a count of 0,
\* else one bit, then a 4-bit value for the whole row or a code of the
\* stream's tree per item (4 bits each with table 0).
runsRead(c, bits) ==
  IF c.count = 0 THEN [curDec |-> c.curDec, pos |-> c.pos]
  ELSE IF BitAt(bits, c.pos) = 1 THEN [curDec |-> c.curDec + c.count, pos |-> c.pos + 5]
  ELSE [curDec |-> c.curDec + c.count, pos |-> c.pos + 1 + 4 * c.count]
readRuns(bpv, bits, pos) == runsRead(readCodedDataCount(bpv, bits, pos), bits)

\* ------------------------------------------- decode(data), bit by bit
\* The bit position of the reader, never its bits, decides how long a packet
\* takes: a read moves the position by its width whatever it returns, and
\* the position runs on past the end of the payload.
\* reader.bitsLeft_() at bit position pos of a payload of len bytes
bitsLeftAt(len, pos) == 8 * len - pos
\* reader.align32_() at bit position pos
align32At(pos) == pos + ((32 - (pos % 32)) % 32)
\* The bits of a channel before its coefficient runs: two floats of 29 bits
\* and 8 bits for each band.
channelHead(numBands) == 29 + 29 + 8 * numBands
\* j = ~~Math.min(i + length, frameLen), length the run length read
runEnd_stay(i, length, frameLen) == Min(i, frameLen)
runEnd(i, length, frameLen) == Min(i + length, frameLen)
\* while ((bands[k] ?? 0) < i) q = quant[k++]: the k it ends with, or -1 for
\* a loop that never ends, which is what it is once k is past the table.
RECURSIVE bandsBelow(_, _, _)
bandsBelow(bands, k, i) ==
  IF k >= Len(bands) THEN IF i > 0 THEN -1 ELSE k
  ELSE IF bands[k + 1] < i THEN bandsBelow(bands, k + 1, i)
  ELSE k
\* if (bands[k] === i) q = quant[k++], for each of the coefficients i..j-1
RECURSIVE bandsAt(_, _, _, _)
bandsAt(bands, k, i, j) ==
  IF i >= j THEN k
  ELSE IF k < Len(bands) /\ bands[k + 1] = i THEN bandsAt(bands, k + 1, i + 1, j)
  ELSE bandsAt(bands, k, i + 1, j)
\* One turn of `while (i < frameLen)` of decoder a at state st: the run
\* length read (8 when the bit before it is 0, coded tells whether it was
\* 1), the width read and the number of coefficients of the run that are
\* not 0 and so have a sign bit.
coeffRun(a, st, coded, length, width, signs) ==
  IF width = 0
  THEN IF bandsBelow(a.bands, st.k, runEnd(st.i, length, a.frameLen)) = -1
       THEN [st EXCEPT !.pc = "hang", !.pos = st.pos + (IF coded THEN 9 ELSE 5),
                       !.i = runEnd(st.i, length, a.frameLen)]
       ELSE [st EXCEPT !.pos = st.pos + (IF coded THEN 9 ELSE 5),
                       !.i = runEnd(st.i, length, a.frameLen),
                       !.k = bandsBelow(a.bands, st.k, runEnd(st.i, length, a.frameLen))]
  ELSE [st EXCEPT !.pos = st.pos + (IF coded THEN 9 ELSE 5)
                            + width * (runEnd(st.i, length, a.frameLen) - st.i) + signs,
                  !.i = Max(st.i, runEnd(st.i, length, a.frameLen)),
                  !.k = bandsAt(a.bands, st.k, st.i, runEnd(st.i, length, a.frameLen))]
\* The start of channel ch of a block
channelStart(a, st, ch) ==
  [st EXCEPT !.pc = "run", !.ch = ch, !.i = 2, !.k = 0,
             !.pos = st.pos + channelHead(a.numBands)]
\* The end of a block: it is pushed and the reader aligned.
blockEnd(st) ==
  [st EXCEPT !.pc = "top", !.blocks = st.blocks + 1, !.pos = align32At(st.pos)]
\* The test of `while (reader.bitsLeft_() > 0)` and the block up to its
\* first channel.
blockStart(a, st) ==
  IF bitsLeftAt(a.len, st.pos) <= 0 THEN [st EXCEPT !.pc = "done"]
  ELSE IF a.numInternalChannels < 1
  THEN blockEnd([st EXCEPT !.start = st.pos, !.pos = st.pos + (IF a.useDCT THEN 2 ELSE 0)])
  ELSE channelStart(a, [st EXCEPT !.start = st.pos,
                                  !.pos = st.pos + (IF a.useDCT THEN 2 ELSE 0)], 0)
\* The end of `while (i < frameLen)`: the next channel, or the end of the
\* block.
channelEnd(a, st) ==
  IF st.ch + 1 < a.numInternalChannels THEN channelStart(a, st, st.ch + 1)
  ELSE blockEnd(st)

\* ------------------------------------------------- #readCoeffsOrResidue
\* The state of one call: the locals listStart, listEnd, listPos, bits,
\* masksCount and coeffCount, #tmpCoeffList and #tmpModeList (128 entries,
\* the sequences hold entry i at i + 1), the scan indices stored as leaves
\* (emitted; dup once one was stored twice), the list indices the last step
\* used, the reader position in the stream, which repeats the word w, and
\* the place in the code: "begin", "pass" at the test of the outer loop,
\* "list" in the loop over the list, "done" once it has returned.
StreamBitOf(w, pos) == w[(pos % Len(w)) + 1]
StreamNum(w, pos, n) == SumSeq([i \in 1..n |-> StreamBitOf(w, pos + i - 1) * (2 ^ (i - 1))])
\* list[idx] ?? 0 and list[idx] = v on a 128-entry typed array
ListAt(list, idx) == IF idx >= 0 /\ idx < 128 THEN list[idx + 1] ELSE 0
ListPut(list, idx, v) == IF idx >= 0 /\ idx < 128 THEN [list EXCEPT ![idx + 1] = v] ELSE list

\* The initial operations of the lists.
\* The buffers are the decoder's and keep what the call before left in them.
InitialCoeffs(list, isResidue) ==
  [i \in 1..128 |-> CASE i = 65 -> 4 [] i = 66 -> 24 [] i = 67 -> 44
                      [] i = 68 -> IF isResidue THEN 0 ELSE 1
                      [] i = 69 -> IF isResidue THEN list[i] ELSE 2
                      [] i = 70 -> IF isResidue THEN list[i] ELSE 3
                      [] OTHER -> list[i]]
InitialModes(list, isResidue) ==
  [i \in 1..128 |-> CASE i \in {65, 66, 67} -> 0
                      [] i = 68 -> IF isResidue THEN 2 ELSE 3
                      [] i \in {69, 70} -> IF isResidue THEN list[i] ELSE 3
                      [] OTHER -> list[i]]
\* Up to the first test of the outer loop: masksCount (7 bits) and the bit
\* mask 1 << readBits(3) of a residue block, the bit count readBits(4) - 1
\* of a DCT block.
vmBegin(st) ==
  [st EXCEPT !.pc = "pass", !.listStart = 64,
             !.listEnd = IF st.isResidue THEN 68 ELSE 70,
             !.coeffList = InitialCoeffs(st.coeffList, st.isResidue),
             !.modeList = InitialModes(st.modeList, st.isResidue),
             !.used = IF st.isResidue THEN 64..67 ELSE 64..69,
             !.masksCount = IF st.isResidue THEN StreamNum(st.w, st.pos, 7) ELSE 0,
             !.bits = IF st.isResidue THEN 2 ^ StreamNum(st.w, st.pos + 7, 3)
                      ELSE StreamNum(st.w, st.pos, 4) - 1,
             !.pos = st.pos + (IF st.isResidue THEN 10 ELSE 4)]

\* if (!masksCount--) return
maskSpent(st) ==
  [st EXCEPT !.masksCount = st.masksCount - 1,
             !.pc = IF st.masksCount = 0 THEN "done" ELSE st.pc]
\* The loop over the coefficients already stored, at the start of a pass of
\* a residue block: a bit each, and the mask count spent for a 1.
RECURSIVE vmRefine(_, _)
vmRefine(st, i) ==
  IF i >= st.coeffCount \/ st.pc = "done" THEN st
  ELSE IF StreamBitOf(st.w, st.pos) = 1
  THEN vmRefine(maskSpent([st EXCEPT !.pos = st.pos + 1]), i + 1)
  ELSE vmRefine([st EXCEPT !.pos = st.pos + 1], i + 1)
\* The test of the outer loop, then the refinement loop and listPos =
\* listStart.
vmPass(st) ==
  IF (IF st.isResidue THEN st.bits = 0 ELSE st.bits < 0)
  THEN [st EXCEPT !.pc = "done", !.used = {}]
  ELSE IF st.isResidue
  THEN [vmRefine([st EXCEPT !.pc = "list", !.used = {}], 0) EXCEPT !.listPos = st.listStart]
  ELSE [st EXCEPT !.pc = "list", !.used = {}, !.listPos = st.listStart]

\* Scan index i stored as a leaf: coeffIndex[coeffCount++], the sign bit of
\* a residue value and the mask count, or the bits and sign of a DCT value.
vmLeaf_twice(st, i) ==
  [st EXCEPT !.coeffCount = st.coeffCount + 2, !.pos = st.pos + 1,
             !.emitted = st.emitted \cup {i}, !.dup = st.dup \/ i \in st.emitted]
vmLeaf(st, i) ==
  IF st.isResidue
  THEN maskSpent([st EXCEPT !.coeffCount = st.coeffCount + 1, !.pos = st.pos + 1,
                            !.emitted = st.emitted \cup {i},
                            !.dup = st.dup \/ i \in st.emitted])
  ELSE [st EXCEPT !.coeffCount = st.coeffCount + 1,
                  !.pos = st.pos + (IF st.bits > 0 THEN st.bits + 1 ELSE 1),
                  !.emitted = st.emitted \cup {i}, !.dup = st.dup \/ i \in st.emitted]
\* coeffList[--listStart] = i; modeList[listStart] = 3
vmPush(st, i) ==
  [st EXCEPT !.listStart = st.listStart - 1,
             !.coeffList = ListPut(st.coeffList, st.listStart - 1, i),
             !.modeList = ListPut(st.modeList, st.listStart - 1, 3),
             !.used = st.used \cup {st.listStart - 1}]
\* for (i = ccoeff; i < ccoeff + 4; i++): a bit each, 1 to put i on the list
\* as a leaf to come, 0 to store it now.
RECURSIVE vmFour(_, _, _)
vmFour(st, i, end) ==
  IF i >= end \/ st.pc = "done" THEN st
  ELSE IF StreamBitOf(st.w, st.pos) = 1
  THEN vmFour(vmPush([st EXCEPT !.pos = st.pos + 1], i), i + 1, end)
  ELSE vmFour(vmLeaf([st EXCEPT !.pos = st.pos + 1], i), i + 1, end)

\* The switch on the mode of the list entry at listPos, which holds ccoeff,
\* once its bit was read as 1.
vmEntry(st, ccoeff, mode) ==
  CASE mode = 0 ->
         vmFour([st EXCEPT !.coeffList = ListPut(st.coeffList, st.listPos, ccoeff + 4),
                           !.modeList = ListPut(st.modeList, st.listPos, 1)],
                ccoeff, ccoeff + 4)
    [] mode = 2 ->
         vmFour([st EXCEPT !.coeffList = ListPut(st.coeffList, st.listPos, 0),
                           !.modeList = ListPut(st.modeList, st.listPos, 0),
                           !.listPos = st.listPos + 1],
                ccoeff, ccoeff + 4)
    [] mode = 1 ->
         [st EXCEPT !.modeList =
                      ListPut(ListPut(ListPut(ListPut(st.modeList, st.listPos, 2),
                                              st.listEnd, 2), st.listEnd + 1, 2),
                              st.listEnd + 2, 2),
                    !.coeffList =
                      ListPut(ListPut(ListPut(st.coeffList, st.listEnd, ccoeff + 4),
                                      st.listEnd + 1, ccoeff + 8), st.listEnd + 2, ccoeff + 12),
                    !.listEnd = st.listEnd + 3,
                    !.used = st.used \cup {st.listEnd, st.listEnd + 1, st.listEnd + 2}]
    [] OTHER ->
         vmLeaf([st EXCEPT !.coeffList = ListPut(st.coeffList, st.listPos, 0),
                           !.modeList = ListPut(st.modeList, st.listPos, 0),
                           !.listPos = st.listPos + 1],
                ccoeff)
\* One turn of the loop over the list, or its end: the next bit mask or bit
\* count and back to the test of the outer loop.
vmList(st) ==
  IF st.listPos >= st.listEnd
  THEN [st EXCEPT !.pc = "pass", !.used = {},
                  !.bits = IF st.isResidue THEN st.bits \div 2 ELSE st.bits - 1]
  ELSE IF ListAt(st.modeList, st.listPos) = 0 /\ ListAt(st.coeffList, st.listPos) = 0
  THEN [st EXCEPT !.listPos = st.listPos + 1, !.used = {st.listPos}]
  ELSE IF StreamBitOf(st.w, st.pos) = 0
  THEN [st EXCEPT !.listPos = st.listPos + 1, !.used = {st.listPos}, !.pos = st.pos + 1]
  ELSE vmEntry([st EXCEPT !.pos = st.pos + 1, !.used = {st.listPos}],
               ListAt(st.coeffList, st.listPos), ListAt(st.modeList, st.listPos))

\* ------------------------------------------------------------ audio decoder
\* BikAudioDecoder state of one track: #first and sample 0 of channel 0's
\* #overlapWindow.
NewAudioDecoder == [first |-> TRUE, overlapWindow |-> 0]

\* Sample 0 of channel 0 after the overlap loop: with i = 0 and j = ch = 0 the
\* mix (overlapWindow[0] * count + coeffs[0] * 0) / count is overlapWindow[0].
mixHead(ad, blk) == IF ad.first THEN blk.head ELSE ad.overlapWindow

\* decode(data): one output block per transform block of the payload.
RECURSIVE decode(_, _, _)
decode(ad, blocks, out) ==
  IF blocks = <<>> THEN [ad |-> ad, blocks |-> out]
  ELSE decode([first |-> FALSE, overlapWindow |-> Head(blocks).tail],
              Tail(blocks), Append(out, mixHead(ad, Head(blocks))))

\* Math.ceil(Math.log2(n)) for n >= 1.
CeilLog2(n) == CHOOSE k \in 0..16 : 2 ^ k >= n /\ \A j \in 0..(k - 1) : 2 ^ j < n

\* The constructor's frameLenBits: 9, 10 or 11 by sample rate, and for the
\* interleaved (non-DCT) variant ceil(log2(numChannels)) & 3 more.
frameLenBitsOf_planar(sampleRate, numChannels, useDCT) ==
  IF sampleRate < 22050 THEN 9 ELSE IF sampleRate < 44100 THEN 10 ELSE 11
frameLenBitsOf(sampleRate, numChannels, useDCT) ==
  (IF sampleRate < 22050 THEN 9 ELSE IF sampleRate < 44100 THEN 10 ELSE 11)
    + (IF useDCT THEN 0 ELSE CeilLog2(numChannels) % 4)

\* The sizes the constructor fixes: #numChannels, #numInternalChannels,
\* #frameLen, #overlapLen and #blockSize.
AudioSizes(numChannels, numInternalChannels, frameLen) ==
  [numChannels |-> numChannels, numInternalChannels |-> numInternalChannels,
   frameLen |-> frameLen, overlapLen |-> frameLen \div 16,
   blockSize |-> (frameLen - frameLen \div 16) * numInternalChannels]
BikAudioDecoder(sampleRate, numChannels, useDCT) ==
  AudioSizes(numChannels, IF useDCT THEN numChannels ELSE 1,
             2 ^ frameLenBitsOf(sampleRate, numChannels, useDCT))

\* The lengths of the arrays of one output block: de-interleaved when one
\* internal channel carries several channels, else a slice of each internal
\* channel's #frameLen samples.
strideOf(sz) == CeilDiv(sz.numChannels, sz.numInternalChannels)
outputBlock(sz) ==
  IF strideOf(sz) > 1
  THEN Tuple([k \in 1..(sz.numInternalChannels * CeilDiv(sz.numChannels, strideOf(sz))
                          * strideOf(sz)) |-> sz.blockSize \div strideOf(sz)])
  ELSE Tuple([ch \in 1..sz.numInternalChannels |->
                Min(sz.frameLen, sz.blockSize \div sz.numInternalChannels)])
\* The array lengths of the blocks decode(data) returns for a packet holding
\* numBlocks transform blocks.
decodedLengths(sz, numBlocks) == Tuple([b \in 1..numBlocks |-> outputBlock(sz)])

\* ---------------------------------------------------------------- BikDecoder
VersionOf(magic24) ==
  IF magic24 = MagicBIK THEN 1 ELSE IF magic24 = MagicKB2 THEN 2 ELSE 0

isSupportedOf_withE(version, subVersion) ==
  version = 1 /\ subVersion > 99 /\ subVersion < 106
isSupportedOf(version, subVersion) ==
  version = 1 /\ subVersion > 99 /\ subVersion < 106 /\ subVersion # 101

\* rawOffset & 0xfffffffe for 0 <= rawOffset < 2^31: bit 0 cleared.
MaskOffset(rawOffset) == rawOffset - (rawOffset % 2)

frameHeaderOf(f, index) ==
  LET rawOffset == TableEntry(f, index)
      offset == MaskOffset(rawOffset)
      nextOffset == MaskOffset(TableEntry(f, index + 1))
  IN  [offset |-> offset, size |-> nextOffset - offset, keyframe |-> rawOffset % 2 = 1]

\* A frame-table entry is a 32-bit word, for any value up to 2^32 - 1; a word
\* and a JavaScript number n in -2^32 .. 2^32 are kept as hi = floor(n / 65536)
\* and lo = n mod 65536.
\* rawOffset & 0xfffffffe: bit 0 cleared, and the result a signed 32-bit
\* number, negative when bit 31 of the word is set.
MaskWord(w) ==
  [hi |-> IF w.hi >= 32768 THEN w.hi - 65536 ELSE w.hi, lo |-> w.lo - (w.lo % 2)]
\* nextOffset - offset
NumSub(a, b) ==
  IF a.lo >= b.lo THEN [hi |-> a.hi - b.hi, lo |-> a.lo - b.lo]
  ELSE [hi |-> a.hi - b.hi - 1, lo |-> a.lo - b.lo + 65536]
\* The frame header built from entry rawOffset and the entry after it.
frameEntry(rawOffset, rawNext) ==
  [offset |-> MaskWord(rawOffset), size |-> NumSub(MaskWord(rawNext), MaskWord(rawOffset)),
   keyframe |-> rawOffset.lo % 2 = 1]
\* #seek(pos): <<pos>> when it moves the read position there, <<>> when it
\* returns at once because pos < 0.
seekTarget(pos) == IF pos.hi < 0 THEN <<>> ELSE <<pos>>

NoHeader == <<>>
NewDecoder ==
  [io |-> InitIO, curFrame |-> -1, isSupported |-> FALSE, header |-> NoHeader,
   videoDecoder |-> <<>>, audioTrackDecoders |-> <<>>]

\* #init() on a new decoder reading file f, in the order of its reads: the
\* fixed header (r1), the audio-track headers (r2), the frame-offset list
\* (r3).  ok is FALSE when it throws.
InitFailed(r) == [ok |-> FALSE, d |-> [NewDecoder EXCEPT !.io = r.io]]
InitFrames(f, r3) ==
  IF ~r3.ok THEN InitFailed(r3)
  ELSE [ok |-> TRUE,
        d |-> [io |-> r3.io, curFrame |-> -1,
               isSupported |-> isSupportedOf(VersionOf(f.magic24), f.subVersion),
               header |-> <<[version |-> VersionOf(f.magic24),
                             subVersion |-> f.subVersion,
                             numFrames |-> f.numFrames, width |-> f.width,
                             height |-> f.height, hasAlpha |-> f.hasAlpha,
                             hasSwappedUVPlanes |-> f.subVersion > 103,
                             numAudioTracks |-> f.numAudioTracks,
                             frames |-> [i \in 1..f.numFrames |->
                                           frameHeaderOf(f, i - 1)]]>>,
               videoDecoder |-> <<NewVideoDecoder(f.width, f.height, f.subVersion,
                                                  f.hasAlpha, f.subVersion > 103)>>,
               audioTrackDecoders |-> [i \in 1..f.numAudioTracks |-> NewAudioDecoder]]]
InitAudioTracks(f, r2) ==
  IF ~r2.ok THEN InitFailed(r2)
  ELSE InitFrames(f, ensureReadBytes(r2.io, (f.numFrames + 1) * 4, f))
InitHeader(f, r1) ==
  IF ~r1.ok \/ VersionOf(f.magic24) = 0 THEN InitFailed(r1)
  ELSE InitAudioTracks(f, IF f.numAudioTracks > 0
                          THEN ensureReadBytes(r1.io, f.numAudioTracks * 12, f)
                          ELSE [io |-> r1.io, ok |-> TRUE, at |-> 0])
init(f) == InitHeader(f, ensureReadBytes(seek(NewDecoder.io, 0), FixedHeaderSize, f))

\* The frame body stored in the size source bytes starting at offset at.
GarbageBody(size, ntracks) ==
  FrameBody(size, [i \in 1..ntracks |-> Seg(0, <<>>)], GarbagePlanes)
BodyAt(f, at, size) ==
  IF \E k \in 1..f.numFrames : FrameOffset(f, k - 1) = at /\ f.frames[k].size = size
  THEN f.frames[CHOOSE k \in 1..f.numFrames :
                  FrameOffset(f, k - 1) = at /\ f.frames[k].size = size]
  ELSE GarbageBody(size, f.numAudioTracks)

\* frameBytes.subarray(audioFramePos + 8, audioFramePos + size + 4) on a frame
\* of frameLen bytes.
audioPayloadRange_fromNumSamples(frameLen, audioFramePos, size) ==
  SubArrayRange(frameLen, audioFramePos + 4, audioFramePos + size + 4)
audioPayloadRange(frameLen, audioFramePos, size) ==
  SubArrayRange(frameLen, audioFramePos + 8, audioFramePos + size + 4)

\* The first loop of getNextFrame over the audio-track headers: the size and
\* the payload range of each track, audioFramePos and audioFrameSize after
\* it; ok is FALSE when a getUint32 lies outside the frame.
RECURSIVE audioTracksFrame(_, _, _, _, _, _)
audioTracksFrame(body, ntracks, i, audioFramePos, audioFrameSize, acc) ==
  IF i > ntracks
  THEN [ok |-> TRUE, tracks |-> acc, audioFramePos |-> audioFramePos,
        audioFrameSize |-> audioFrameSize]
  ELSE IF audioFramePos + 4 > body.size
  THEN [ok |-> FALSE, tracks |-> acc, audioFramePos |-> audioFramePos,
        audioFrameSize |-> audioFrameSize]
  ELSE
    LET size == U32At(body, audioFramePos)
        bytes == audioPayloadRange(body.size, audioFramePos, size)
    IN  IF size > 3 /\ audioFramePos + 8 > body.size
        THEN [ok |-> FALSE, tracks |-> acc, audioFramePos |-> audioFramePos,
              audioFrameSize |-> audioFrameSize]
        ELSE audioTracksFrame(body, ntracks, i + 1, audioFramePos + size + 4,
                              audioFrameSize + size,
                              Append(acc, [size |-> size, bytes |-> bytes]))

\* The second loop of getNextFrame: every track's payload goes to its decoder.
RECURSIVE decodeAudioTracks(_, _, _, _, _)
decodeAudioTracks(decoders, body, tracks, i, acc) ==
  IF i > Len(tracks) THEN [decoders |-> decoders, audioTracks |-> acc]
  ELSE IF i > Len(decoders) THEN decodeAudioTracks(decoders, body, tracks, i + 1, acc)
  ELSE LET r == decode(decoders[i],
                       AudioAt(body, tracks[i].bytes.lo, tracks[i].bytes.hi), <<>>)
       IN  decodeAudioTracks([decoders EXCEPT ![i] = r.ad], body, tracks, i + 1,
                             Append(acc, [size |-> tracks[i].size, blocks |-> r.blocks]))

NoRange == [lo |-> 0, hi |-> 0]
AllSkip(planes) ==
  \A j \in 1..Len(planes) : \A k \in 1..Len(planes[j]) :
    planes[j][k].type = BIK_BLOCK_TYPE_SKIP

\* What one getNextFrame call gives back: kind is "frame", "null" or "error"
\* (the promise rejects); for a frame, its index, the video frame, the audio
\* tracks, and what was handed to the decoders to produce them.
Result(kind, idx, videoFrame, audioTracks, tracks, video, strides, allSkip) ==
  [kind |-> kind, idx |-> idx, videoFrame |-> videoFrame, audioTracks |-> audioTracks,
   tracks |-> tracks, video |-> video, strides |-> strides, allSkip |-> allSkip]
NullResult == Result("null", -1, <<>>, <<>>, <<>>, NoRange, NoStrides, FALSE)
ErrorResult == Result("error", -1, <<>>, <<>>, <<>>, NoRange, NoStrides, FALSE)
NoResult == Result("none", -1, <<>>, <<>>, <<>>, NoRange, NoStrides, FALSE)

\* if (!this.#isSupported) return null
refusesFrames_never(d) == FALSE
refusesFrames(d) == ~d.isSupported

\* ++this.#curFrame
nextIndex_skipping(curFrame) == curFrame + 2
nextIndex(curFrame) == curFrame + 1

\* frameBytes.subarray(videoFramePos, videoFramePos + videoFrameSize), where
\* a is the result of the loop over the audio-track headers.
VideoRange(frameLen, a) ==
  SubArrayRange(frameLen, a.audioFramePos, a.audioFramePos + (frameLen - a.audioFrameSize))

\* The call of decodeFrame_ that ends getNextFrame, with result v: the
\* promise rejects when it throws, the video decoder staying as the throw
\* left it, else the frame is returned.  d2 is the
\* decoder once the audio tracks are decoded, au what they decoded.
VideoDecoded(d2, cur, prevFrame, a, au, video, allSkip, v) ==
  IF ~v.ok
  THEN [d |-> [d2 EXCEPT !.videoDecoder = <<v.vd>>], res |-> ErrorResult,
        prevFrame |-> IF prevFrame = <<>> THEN <<>> ELSE <<v.frame>>]
  ELSE [d |-> [d2 EXCEPT !.videoDecoder = <<v.vd>>],
        res |-> Result("frame", cur, <<v.frame>>, au.audioTracks, a.tracks, video,
                       v.strides, allSkip),
        prevFrame |-> IF prevFrame = <<>> THEN <<>> ELSE <<v.frame>>]
DecodeVideo(d2, cur, prevFrame, a, au, video, planes) ==
  VideoDecoded(d2, cur, prevFrame, a, au, video, AllSkip(planes),
               decodeFrame_(d2.videoDecoder[1], planes, prevFrame))

\* The two loops over the audio tracks of the frame body, with results a
\* and au.
AudioDecoded(d1, cur, prevFrame, body, a, au) ==
  DecodeVideo([d1 EXCEPT !.audioTrackDecoders = au.decoders], cur, prevFrame, a, au,
              VideoRange(body.size, a),
              VideoAt(body, VideoRange(body.size, a).lo, VideoRange(body.size, a).hi))
AudioSliced(d1, cur, prevFrame, body, a) ==
  IF ~a.ok THEN [d |-> d1, res |-> ErrorResult, prevFrame |-> prevFrame]
  ELSE AudioDecoded(d1, cur, prevFrame, body, a,
                    decodeAudioTracks(d1.audioTrackDecoders, body, a.tracks, 1, <<>>))
DecodeBody(d1, cur, prevFrame, body) ==
  AudioSliced(d1, cur, prevFrame, body,
              audioTracksFrame(body, Len(d1.audioTrackDecoders), 1, 0, 0, <<>>))

\* await this.#seek(frameHeader.offset); await this.#ensureReadBytes(size),
\* with result rd; the cursor is already on frame cur.
FrameRead(d, f, prevFrame, cur, size, rd) ==
  IF ~rd.ok
  THEN [d |-> [d EXCEPT !.curFrame = cur, !.io = rd.io], res |-> ErrorResult,
        prevFrame |-> prevFrame]
  ELSE DecodeBody([d EXCEPT !.curFrame = cur, !.io = rd.io], cur, prevFrame,
                  BodyAt(f, rd.at, size))
ReadFrame(d, f, prevFrame, cur, frameHeader) ==
  FrameRead(d, f, prevFrame, cur, frameHeader.size,
            ensureReadBytes(seek(d.io, frameHeader.offset), frameHeader.size, f))

\* getNextFrame(prevFrame) on decoder d reading file f; prevFrame is <<>> or
\* <<video frame>>.  Gives the decoder afterwards, the result, and the
\* caller's frame object afterwards (it is written in place).
getNextFrame(d, f, prevFrame) ==
  IF refusesFrames(d) THEN [d |-> d, res |-> NullResult, prevFrame |-> prevFrame]
  ELSE IF nextIndex(d.curFrame) >= Len(d.header[1].frames)
  THEN [d |-> d, res |-> NullResult, prevFrame |-> prevFrame]
  ELSE ReadFrame(d, f, prevFrame, nextIndex(d.curFrame),
                 d.header[1].frames[nextIndex(d.curFrame) + 1])

\* One pass of the loop of skipFrames, r the result of its getNextFrame call:
\* the loop stops at the first null and rejects when the call rejects.  frame
\* is the last frame a call returned, decoded counts the frames decoded.
SkipStep(st, r) ==
  IF r.res.kind = "error" THEN [st EXCEPT !.d = r.d, !.ok = FALSE, !.done = TRUE]
  ELSE IF r.res.kind = "null" THEN [st EXCEPT !.d = r.d, !.done = TRUE]
  ELSE [d |-> r.d, ok |-> TRUE, frame |-> r.res.videoFrame, decoded |-> st.decoded + 1,
        done |-> FALSE]
RECURSIVE skipLoop(_, _, _)
skipLoop(st, f, numFrames) ==
  IF st.done \/ st.decoded >= numFrames THEN st
  ELSE skipLoop(SkipStep(st, getNextFrame(st.d, f, st.frame)), f, numFrames)
skipFrames_oneMore(d, f, numFrames) ==
  skipLoop([d |-> d, ok |-> TRUE, frame |-> <<>>, decoded |-> 0, done |-> FALSE],
           f, numFrames + 1)
skipFrames(d, f, numFrames) ==
  skipLoop([d |-> d, ok |-> TRUE, frame |-> <<>>, decoded |-> 0, done |-> FALSE],
           f, numFrames)

reset_keep(d) == d
reset(d) == [d EXCEPT !.curFrame = -1]

\* -------------------------------------------------------------- input domain
SubVersionI == 105
SeqsUpTo(S, n) == UNION {[1..k -> S] : k \in 0..n}
Planes3(y, c) == << <<y>>, <<c>>, <<c>> >>

\* Video content: 2x2 frames, one block per plane.
LumaOps == {Fill(1), Motion(1, 0), Scaled(BIK_BLOCK_TYPE_FILL, 2), BadBlock}
VideoFrames ==
  {MkFrame(<<>>, Planes3(Skip, Skip)), MkFrame(<<>>, Planes3(Skip, Fill(3)))}
    \cup {MkFrame(<<>>, Planes3(y, Skip)) : y \in LumaOps}
VideoFiles ==
  {MkFile(MagicBIK, SubVersionI, 2, 2, FALSE, 0, fr, 0) : fr \in SeqsUpTo(VideoFrames, MaxFrames)}

\* Audio content: one track, every video block SKIP.
BlockLists == {<<>>, <<BlockA>>, <<BlockB, BlockA>>}
AudioFrames == {MkFrame(<<b>>, Planes3(Skip, Skip)) : b \in BlockLists}
AudioFiles ==
  {MkFile(MagicBIK, SubVersionI, 1, 1, FALSE, 1, fr, 0) :
     fr \in SeqsUpTo(AudioFrames, MaxFrames) \ {<<>>}}

\* Every magic: the three low bytes BIK, KB2 or neither, any fourth byte.
TwoFrames == <<MkFrame(<<>>, Planes3(Fill(1), Fill(1))), MkFrame(<<>>, Planes3(Skip, Skip))>>
VersionFiles ==
  {MkFile(m, sub, 1, 1, FALSE, 0, <<TwoFrames[1]>>, 0) : m \in {MagicBIK, MagicKB2, 0}, sub \in 0..255}

\* Every coded width and height, with and without an alpha plane.
PlanesOf(alpha, op) == IF alpha THEN <<<<op>>, <<op>>, <<op>>, <<op>>>> ELSE Planes3(op, op)
DimFiles ==
  {MkFile(MagicBIK, SubVersionI, w, h, alpha, 0,
          <<MkFrame(<<>>, PlanesOf(alpha, Fill(1))), MkFrame(<<>>, PlanesOf(alpha, Skip))>>, 0) :
     w \in 1..MaxDim, h \in 1..MaxDim, alpha \in BOOLEAN}

\* Every audio segment size around the 4-byte numSamples field; the video
\* payload takes 4 or 5 bytes, so that the frame ends on an even offset.
SegSizes == {0, 3, 4, 5, 8}
SegOf(size) == Seg(size, IF size > 4 THEN <<BlockA>> ELSE <<>>)
EvenUp(n) == n + (n % 2)
SliceFrames ==
  {FrameBody(EvenUp(SumSeq([i \in 1..Len(ss) |-> ss[i] + 4]) + 4),
             [i \in 1..Len(ss) |-> SegOf(ss[i])], Planes3(Fill(1), Skip)) :
     ss \in [1..1 -> SegSizes] \cup [1..2 -> SegSizes]}
SliceFiles ==
  {MkFile(MagicBIK, SubVersionI, 1, 1, FALSE, Len(fr.segs), <<fr>>, 0) : fr \in SliceFrames}

\* Sources that end early, at every byte of a two-frame file and of a file
\* with an audio track, delivered one byte at a time, in chunks that straddle
\* the header and table boundaries, or in chunks of ChunkSize bytes.
TruncBase(ntracks) ==
  IF ntracks = 0 THEN TwoFrames
  ELSE <<MkFrame(<<<<BlockA>>>>, Planes3(Fill(1), Fill(1)))>>
TruncOf(ntracks, c) ==
  {[MkFile(MagicBIK, SubVersionI, 1, 1, FALSE, ntracks, TruncBase(ntracks), cut)
      EXCEPT !.chunk = c] :
     cut \in 0..FullLen(MkFile(MagicBIK, SubVersionI, 1, 1, FALSE, ntracks,
                               TruncBase(ntracks), 0))}
TruncFiles == UNION {TruncOf(nt, c) : nt \in {0, 1}, c \in {1, 5, ChunkSize}}

\* Corrupt payloads: 1x9 frames, two block rows of one block in the luma
\* plane.  A luma program starts with a block type or sub-block type no
\* handler exists for, or holds such a SCALED block in the second row, where
\* it is stepped over; one frame is corrupt in a chroma plane, one is valid
\* and one is valid and ends after the luma plane.
CorruptLuma ==
  {<<Scaled(s, 0)>> : s \in {0, 4, 7, 15}} \cup {<<BadBlock>>, <<Op(15, 0, 0, 0, 0)>>}
    \cup {<<Skip, Scaled(4, 0)>>}
CorruptFrames ==
  {MkFrame(<<>>, <<y, <<Skip>>, <<Skip>>>>) : y \in CorruptLuma}
    \cup {MkFrame(<<>>, <<<<Skip>>, <<BadBlock>>, <<Skip>>>>),
          MkFrame(<<>>, <<<<Fill(2), Fill(3)>>, <<Skip>>, <<Fill(4)>>>>),
          MkFrame(<<>>, <<<<Fill(1)>>>>)}
CorruptFiles ==
  {MkFile(MagicBIK, SubVersionI, 1, 9, FALSE, 0, fr, 0) :
     fr \in SeqsUpTo(CorruptFrames, MaxFrames) \ {<<>>}}

\* Every sub-version c to j with a 2x2 frame whose three coded planes are
\* filled with three different values.
SwapFrame == MkFrame(<<>>, <<<<Fill(1)>>, <<Fill(2)>>, <<Fill(3)>>>>)
SwapFiles == {MkFile(MagicBIK, sub, 2, 2, FALSE, 0, <<SwapFrame>>, 0) : sub \in 99..106}

\* Video payloads that end early: 2x2 files, with and without an alpha plane,
\* plane order exchanged or not; a frame that fills every coded plane with a
\* value of its own, then a frame that codes only the first k planes.
FillsFrom(base, k) == MkFrame(<<>>, Tuple([j \in 1..k |-> <<Fill(base + j)>>]))
OrderFiles ==
  {MkFile(MagicBIK, sub, 2, 2, alpha, 0,
          <<FillsFrom(0, IF alpha THEN 4 ELSE 3), FillsFrom(4, k)>>, 0) :
     sub \in {103, SubVersionI}, alpha \in BOOLEAN, k \in 1..3}

Files == VideoFiles \cup AudioFiles \cup VersionFiles \cup DimFiles \cup SliceFiles
           \cup TruncFiles \cup CorruptFiles \cup SwapFiles \cup OrderFiles

\* ------------------------------------------------------------------- state
VARIABLES
  file,       \* the data source
  phase,      \* "new", "open" once open() resolved, "failed" once it rejected
  dec,        \* the BikDecoder
  held,       \* the video frame the caller holds: <<>> or <<frame>>
  last,       \* the last call: its name, argument and result
  calls,      \* getNextFrame and skipFrames calls the caller has made
  plain,      \* only getNextFrame calls were made since open()
  wasReset,   \* reset() was called since open()
  returned,   \* yuv of the frame getNextFrame returned most recently
  before,     \* the value of returned before the last call
  unit        \* the component exercised on its own: its input and output

vars == <<file, phase, dec, held, last, calls, plain, wasReset, returned, before, unit>>

\* No component is exercised on its own while a decoder runs.
NoUnit == [fn |-> "none"]

Call(op, arg, reuse, res, ok) ==
  [op |-> op, arg |-> arg, reuse |-> reuse, res |-> res, ok |-> ok]

Init ==
  /\ file \in Files
  /\ phase = "new"
  /\ dec = NewDecoder
  /\ held = <<>>
  /\ last = Call("none", 0, FALSE, NoResult, TRUE)
  /\ calls = 0
  /\ plain = TRUE
  /\ wasReset = FALSE
  /\ returned = <<>>
  /\ before = <<>>
  /\ unit = NoUnit

\* createBikDecoder(source), r the result of #init()
Opened(r) ==
  /\ phase' = IF r.ok THEN "open" ELSE "failed"
  /\ dec' = r.d
  /\ last' = Call("open", 0, FALSE, NoResult, r.ok)
  /\ returned' = IF r.ok THEN r.d.videoDecoder[1].prevData ELSE <<>>
  /\ before' = returned'
  /\ UNCHANGED <<file, held, calls, plain, wasReset, unit>>
Open ==
  /\ phase = "new"
  /\ Opened(init(file))

\* The caller's frame and the yuv bookkeeping after a getNextFrame call.
AfterCall(r, reuse) ==
  /\ dec' = r.d
  /\ last' = Call("getNextFrame", 0, reuse, r.res, r.res.kind # "error")
  /\ held' = IF r.res.kind = "frame" THEN r.res.videoFrame
             ELSE IF reuse THEN r.prevFrame ELSE held
  /\ before' = returned
  /\ returned' = IF r.res.kind = "frame" THEN r.res.videoFrame[1].yuv ELSE returned
  /\ calls' = calls + 1
  /\ UNCHANGED <<file, phase, plain, wasReset, unit>>

\* await decoder.getNextFrame()
GetNextFrame ==
  /\ phase = "open"
  /\ calls < MaxCalls
  /\ AfterCall(getNextFrame(dec, file, <<>>), FALSE)

\* await decoder.getNextFrame(frame) with the frame the caller holds
GetNextFrameReuse ==
  /\ phase = "open"
  /\ calls < MaxCalls
  /\ held # <<>>
  /\ AfterCall(getNextFrame(dec, file, held), TRUE)

\* await decoder.skipFrames(n), r its result
Skipped(n, r) ==
  /\ dec' = r.d
  /\ last' = Call("skipFrames", n, FALSE, NoResult, r.ok)
  /\ before' = returned
  /\ returned' = IF r.frame # <<>> THEN r.frame[1].yuv ELSE returned
  /\ calls' = calls + 1
  /\ plain' = FALSE
  /\ UNCHANGED <<file, phase, held, wasReset, unit>>
SkipFrames ==
  /\ phase = "open"
  /\ calls < MaxCalls
  /\ \E n \in (-1)..MaxSkip : Skipped(n, skipFrames(dec, file, n))

\* decoder.reset()
Reset ==
  /\ phase = "open"
  /\ last.op # "reset"
  /\ calls < MaxCalls
  /\ dec' = reset(dec)
  /\ last' = Call("reset", 0, FALSE, NoResult, TRUE)
  /\ plain' = FALSE
  /\ wasReset' = TRUE
  /\ UNCHANGED <<file, phase, held, calls, returned, before, unit>>

\* The caller writes over the pixels of the frame it holds.
Scribbled(n) == Tuple([i \in 1..n |-> 7])
CallerOverwrite ==
  /\ held # <<>>
  /\ held[1].yuv # Scribbled(Len(held[1].yuv))
  /\ held' = <<[held[1] EXCEPT !.yuv = Scribbled(Len(held[1].yuv))]>>
  /\ UNCHANGED <<file, phase, dec, last, calls, plain, wasReset, returned, before, unit>>

Next ==
  \/ Open
  \/ GetNextFrame
  \/ GetNextFrameReuse
  \/ SkipFrames
  \/ Reset
  \/ CallerOverwrite

Spec == Init /\ [][Next]_vars

\* ------------------------------------------------- components on their own
\* The decoder variables while a component is exercised on its own.
mainVars == <<file, phase, dec, held, last, calls, plain, wasReset, returned, before>>
Idle ==
  /\ file = MkFile(MagicBIK, SubVersionI, 1, 1, FALSE, 0, TwoFrames, 0)
  /\ phase = "new"
  /\ dec = NewDecoder
  /\ held = <<>>
  /\ last = Call("none", 0, FALSE, NoResult, TRUE)
  /\ calls = 0
  /\ plain = TRUE
  /\ wasReset = FALSE
  /\ returned = <<>>
  /\ before = <<>>

\* Audio track headers: a 16-bit sample rate, one or two channels, DCT or
\* IRDFT.
SampleRates == {0, 8000, 11025, 22049, 22050, 32000, 44099, 44100, 48000, 65535}
AudioTracks ==
  {[fn |-> "audio", sampleRate |-> sr, numChannels |-> nc, useDCT |-> dct,
    sizes |-> <<>>, packets |-> 0, out |-> <<>>] :
     sr \in SampleRates, nc \in {1, 2}, dct \in BOOLEAN}
InitAudio == Idle /\ unit \in AudioTracks
\* new BikAudioDecoder(sampleRate, numChannels, useDCT)
NewAudio ==
  /\ unit.sizes = <<>>
  /\ unit' = [unit EXCEPT !.sizes = <<BikAudioDecoder(unit.sampleRate, unit.numChannels,
                                                      unit.useDCT)>>]
  /\ UNCHANGED mainVars
\* decode(data) of a packet of n transform blocks
DecodePacket ==
  /\ unit.sizes # <<>>
  /\ unit.packets < MaxCalls
  /\ \E n \in 0..MaxBlocks :
       unit' = [unit EXCEPT !.packets = unit.packets + 1,
                            !.out = decodedLengths(unit.sizes[1], n)]
  /\ UNCHANGED mainVars
NextAudio == NewAudio \/ DecodePacket
SpecAudio == InitAudio /\ [][NextAudio]_vars

\* Bit readers: buffers of 0 to 5 bytes, first moved to any bit of the first
\* byte by skip_, then read or peeked with every width 0..32.
BitBuffers ==
  SeqsUpTo({165, 255}, 2)
    \cup {<<1, 0, 0, 128, 255>>, <<255, 255, 255, 255, 255>>, <<165, 60, 129, 126, 195>>}
InitBits ==
  /\ Idle
  /\ unit \in {[fn |-> "bits", buffer |-> b, pos |-> 0, bitPos |-> 0, reads |-> 0,
                skipped |-> FALSE, op |-> "none", n |-> 0, from |-> 0, value |-> 0] :
                 b \in BitBuffers}
SkipBits ==
  /\ ~unit.skipped /\ unit.reads = 0
  /\ \E k \in 1..7 :
       unit' = [unit EXCEPT !.skipped = TRUE, !.op = "skip", !.n = k, !.from = tell_(unit),
                            !.pos = skip_(unit, k).pos, !.bitPos = skip_(unit, k).bitPos]
  /\ UNCHANGED mainVars
BitsRead(n, peek, r) ==
  /\ unit' = [unit EXCEPT !.reads = unit.reads + 1, !.op = IF peek THEN "peek" ELSE "read",
                          !.n = n, !.from = tell_(unit), !.value = r.value,
                          !.pos = r.pos, !.bitPos = r.bitPos]
  /\ UNCHANGED mainVars
ReadBits ==
  /\ unit.reads < MaxReads
  /\ \E n \in 0..32 : BitsRead(n, FALSE, readBits_(unit, n, FALSE))
PeekBits ==
  /\ unit.reads < MaxReads
  /\ \E n \in 0..32 : BitsRead(n, TRUE, readBits_(unit, n, TRUE))
NextBits == SkipBits \/ ReadBits \/ PeekBits
SpecBits == InitBits /\ [][NextBits]_vars

\* Frame-table entries: words on both sides of 2^31, with bit 0 set and clear.
TableWords ==
  {[hi |-> h, lo |-> l] : h \in {0, 1, 32767, 32768, 65535}, l \in {0, 1, 2, 65534, 65535}}
InitTable ==
  /\ Idle
  /\ unit \in {[fn |-> "table", raw |-> r, next |-> n, header |-> <<>>, sought |-> <<>>,
                seeks |-> 0] : r \in TableWords, n \in TableWords}
\* #init builds the frame header of the entry
ParseEntry ==
  /\ unit.header = <<>>
  /\ unit' = [unit EXCEPT !.header = <<frameEntry(unit.raw, unit.next)>>]
  /\ UNCHANGED mainVars
\* getNextFrame: await this.#seek(frameHeader.offset)
SeekEntry ==
  /\ unit.header # <<>>
  /\ unit.seeks = 0
  /\ unit' = [unit EXCEPT !.seeks = 1, !.sought = seekTarget(unit.header[1].offset)]
  /\ UNCHANGED mainVars
NextTable == ParseEntry \/ SeekEntry
SpecTable == InitTable /\ [][NextTable]_vars

\* The start of decodeFrame_ for every sub-version b to k, with and without
\* an alpha plane, the blocks of the alpha plane ending before, on and after
\* a 32-bit boundary.
AlphaBits == {1, 31, 32, 33, 64}
InitPlanes ==
  /\ Idle
  /\ unit \in {[fn |-> "planes", version |-> v, hasAlpha |-> a, alphaBits |-> b,
                starts |-> <<>>] : v \in 98..107, a \in BOOLEAN, b \in AlphaBits}
StartPlanes ==
  /\ unit.starts = <<>>
  /\ unit' = [unit EXCEPT !.starts = <<planeStarts(unit.version, unit.hasAlpha, unit.alphaBits,
                                                   [pos |-> 0, bitPos |-> 0])>>]
  /\ UNCHANGED mainVars
NextPlanes == StartPlanes
SpecPlanes == InitPlanes /\ [][NextPlanes]_vars

\* One COLORS row read for every sub-version b to k and every decoded byte:
\* nothing to read, a run of one or two, or two separate colours, the second
\* the complement of the first.
RawColors(v, count, isRun) ==
  IF count = 0 THEN <<>> ELSE IF isRun \/ count = 1 THEN <<v>> ELSE <<v, 255 - v>>
InitColors ==
  /\ Idle
  /\ unit \in {[fn |-> "colors", version |-> ver, count |-> c, isRun |-> run,
                raw |-> RawColors(v, c, run), items |-> <<0, 0, 0>>, curDec |-> d,
                colLastValue |-> 0, done |-> FALSE] :
                 ver \in 98..107, c \in 0..2, run \in BOOLEAN, v \in 0..255, d \in 0..1}
Colored(r) ==
  /\ unit' = [unit EXCEPT !.items = r.items, !.curDec = r.curDec,
                          !.colLastValue = r.colLastValue, !.done = TRUE]
  /\ UNCHANGED mainVars
ReadColors ==
  /\ ~unit.done
  /\ Colored(readColors(unit.version, [items |-> unit.items, curDec |-> unit.curDec],
                        unit.colLastValue, unit.count, unit.isRun, unit.raw))
NextColors == ReadColors
SpecColors == InitColors /\ [][NextColors]_vars

\* Tree descriptions as bit streams: the number v in n bits, and a word
\* repeated to n bits.
Enc(v, n) == Tuple([i \in 1..n |-> (v \div (2 ^ (i - 1))) % 2])
Repeat(w, n) == Tuple([i \in 1..n |-> w[((i - 1) % Len(w)) + 1]])
\* Order mode with symbol i = (a * i + b) mod 16: distinct symbols for odd a,
\* repeated ones for even a.
OrderBits(tableNum, len, a, b) ==
  Enc(tableNum, 4) \o <<1>> \o Enc(len, 3)
    \o Tuple([k \in 1..(4 * (len + 1)) |->
                (((a * ((k - 1) \div 4) + b) % 16) \div (2 ^ ((k - 1) % 4))) % 2])
\* Shuffle mode with every word of 1 to 5 bits repeated as the shuffle bits;
\* the stream ends after 40 of them, the rest read as 0.
ShuffleBits(tableNum, len, w) == Enc(tableNum, 4) \o <<0>> \o Enc(len, 2) \o Repeat(w, 40)
TreeBits ==
  {Enc(0, 4), <<>>}
    \cup {OrderBits(t, len, a, b) : t \in {1, 15}, len \in 0..7, a \in 0..5, b \in {0, 9}}
    \cup {ShuffleBits(t, len, w) : t \in {1, 15}, len \in 0..3,
                                   w \in UNION {[1..k -> {0, 1}] : k \in 1..5}}
InitTree ==
  /\ Idle
  /\ unit \in {[fn |-> "tree", bits |-> b, tree |-> <<>>] : b \in TreeBits}
ReadTree ==
  /\ unit.tree = <<>>
  /\ unit' = [unit EXCEPT !.tree = <<readTree(unit.bits)>>]
  /\ UNCHANGED mainVars
NextTree == ReadTree
SpecTree == InitTree /\ [][NextTree]_vars

\* #decodePlane one block row at a time, for the Y plane and a chroma plane
\* of frames of one to three block columns and rows, widths on and off a
\* multiple of 8, and every sequence of up to four SKIP and SCALED blocks
\* (SKIP once the sequence is used up).  starts and cols record #dataPtr at
\* the start of each row and the block columns the row consumed.
RowWidths == {1, 8, 12, 16, 24}
RowHeights == {1, 16, 17}
RowProgs == SeqsUpTo({Skip, Scaled(BIK_BLOCK_TYPE_FILL, 1)}, 4)
InitRows ==
  /\ Idle
  /\ unit \in {[fn |-> "rows", width |-> w, height |-> h, planeIndex |-> p, prog |-> prog,
                st |-> [data |-> Zeros(planeLenOf([width |-> w, height |-> h], p)),
                        dataPtr |-> 0, k |-> 1, ok |-> TRUE],
                row |-> 0, starts |-> <<>>, cols |-> <<>>] :
                 w \in RowWidths, h \in RowHeights, p \in {0, 1}, prog \in RowProgs}
RowDone(stride, r) ==
  /\ unit' = [unit EXCEPT !.st = NextRow(r, stride), !.row = unit.row + 1,
                          !.starts = Append(unit.starts, unit.st.dataPtr),
                          !.cols = Append(unit.cols, (r.dataPtr - unit.st.dataPtr) \div 8)]
  /\ UNCHANGED mainVars
DecodeRow ==
  /\ unit.row < blockHeightOf(unit, unit.planeIndex)
  /\ RowDone(lineSizeOf(unit.width)[unit.planeIndex + 1],
             BlockLoop(unit.st, unit.prog, Zeros(Len(unit.st.data)),
                       lineSizeOf(unit.width)[unit.planeIndex + 1],
                       blockWidthOf(unit, unit.planeIndex), unit.row + 1, 0))
NextRows == DecodeRow
SpecRows == InitRows /\ [][NextRows]_vars

\* The RUN stream of a plane one block column wide, over streams made of up
\* to three coded rows (a count of 0..3, then a run value or one code per
\* item) and zeros after them.  exhausted tells that a count of 0 was read
\* in the plane; took is the number of bits the last row read took.
RowChunk(count, isRun) ==
  Enc(count, runLenBits(1))
    \o (IF count = 0 THEN <<>> ELSE IF isRun THEN <<1, 1, 0, 1, 0>> ELSE <<0>> \o Enc(6, 4 * count))
RowChunks == {RowChunk(c, r) : c \in 0..3, r \in BOOLEAN}
StreamBits ==
  {<<>>} \cup RowChunks \cup {a \o b : a \in RowChunks, b \in RowChunks}
    \cup {a \o b \o c : a \in RowChunks, b \in RowChunks, c \in RowChunks}
InitStream ==
  /\ Idle
  /\ unit \in {[fn |-> "stream", bits |-> b, pos |-> 0, curDec |-> 0, curPtr |-> 0,
                len |-> runLenBits(1), rows |-> 0, planes |-> 1, exhausted |-> FALSE,
                took |-> 0, op |-> "plane"] : b \in StreamBits}
\* #readPlaneTrees: curDec_ = curPtr_ = 0 for the next plane (the tree of the
\* stream is table 0, four bits)
NewPlane ==
  /\ unit.planes < 2
  /\ unit.rows > 0
  /\ unit' = [unit EXCEPT !.curDec = 0, !.curPtr = 0, !.rows = 0, !.planes = unit.planes + 1,
                          !.exhausted = FALSE, !.took = 0, !.op = "plane",
                          !.pos = unit.pos + 4]
  /\ UNCHANGED mainVars
RowRead(r) ==
  /\ unit' = [unit EXCEPT !.curDec = r.curDec, !.pos = r.pos, !.rows = unit.rows + 1,
                          !.took = r.pos - unit.pos, !.op = "row",
                          !.exhausted = unit.exhausted \/ (r.curDec = -1 /\ unit.curDec # -1)]
  /\ UNCHANGED mainVars
\* this.#readRuns(blockParams[BIK_PARAM_RUN]) at the start of a block row
ReadRow ==
  /\ unit.rows < MaxRows
  /\ unit.op # "row"
  /\ RowRead(readRuns(unit, unit.bits, unit.pos))
\* The blocks of the row take n values of the stream: curPtr_++ each.
TakeValues ==
  /\ unit.op = "row"
  /\ \E n \in 0..3 : unit' = [unit EXCEPT !.curPtr = unit.curPtr + n, !.op = "blocks"]
  /\ UNCHANGED mainVars
NextStream == NewPlane \/ ReadRow \/ TakeValues
SpecStream == InitStream /\ [][NextStream]_vars

\* #readCoeffsOrResidue for a residue block and a DCT block, over the
\* streams that repeat a word of up to MaxWord bits, with the lists as an
\* earlier call may have left them.
CoeffWords == UNION {[1..k -> {0, 1}] : k \in 1..MaxWord}
InitVM ==
  /\ Idle
  /\ unit \in {[fn |-> "vm", isResidue |-> r, w |-> w, pos |-> 0, pc |-> "begin",
                listStart |-> 64, listEnd |-> 70, listPos |-> 64, bits |-> 0,
                masksCount |-> 0, coeffCount |-> 0,
                coeffList |-> [i \in 1..128 |-> c], modeList |-> [i \in 1..128 |-> d],
                emitted |-> {}, dup |-> FALSE, used |-> {}] :
                 r \in BOOLEAN, w \in CoeffWords, c \in {0, 60}, d \in {0, 1}}
VMBegin ==
  /\ unit.fn = "vm" /\ unit.pc = "begin"
  /\ unit' = vmBegin(unit)
  /\ UNCHANGED mainVars
VMPass ==
  /\ unit.fn = "vm" /\ unit.pc = "pass"
  /\ unit' = vmPass(unit)
  /\ UNCHANGED mainVars
VMList ==
  /\ unit.fn = "vm" /\ unit.pc = "list"
  /\ unit' = vmList(unit)
  /\ UNCHANGED mainVars
NextVM == VMBegin \/ VMPass \/ VMList
SpecVM == InitVM /\ [][NextVM]_vars

\* #seek and #ensureReadBytes issued one at a time on a source of up to
\* MaxSource bytes delivered in chunks of up to MaxChunk bytes.
InitBytes ==
  /\ Idle
  /\ unit \in {[fn |-> "bytes", src |-> [len |-> n, chunk |-> c], io |-> InitIO,
                op |-> "none", arg |-> 0, ok |-> TRUE, at |-> 0] :
                 n \in 0..MaxSource, c \in 1..MaxChunk}
SeekBytes ==
  /\ unit.fn = "bytes"
  /\ \E pos \in -1..(unit.src.len + 1) :
       unit' = [unit EXCEPT !.io = seek(unit.io, pos), !.op = "seek", !.arg = pos,
                            !.ok = TRUE, !.at = 0]
  /\ UNCHANGED mainVars
BytesRead(len, r) ==
  unit' = [unit EXCEPT !.io = r.io, !.op = "read", !.arg = len, !.ok = r.ok, !.at = r.at]
EnsureBytes ==
  /\ unit.fn = "bytes"
  /\ \E len \in 0..(unit.src.len + 1) :
       BytesRead(len, ensureReadBytes(unit.io, len, unit.src))
  /\ UNCHANGED mainVars
NextBytes == SeekBytes \/ EnsureBytes
SpecBytes == InitBytes /\ [][NextBytes]_vars

\* ------------------------------------------ two getNextFrame calls at once
\* Two calls of getNextFrame on one decoder over a Blob, the second made
\* before the first resolved.  p is the decoder and the two calls:
\*   curFrame, bufNull, buf, bufPos   #curFrame, #bufBytes (the source offset
\*                               of each byte, -1 for a byte no chunk filled)
\*                               and #bufPos
\*   reader, gen, streamPos      #streamReader: "none", "live" or "closed"
\*                               (cancelled), which stream it reads and the
\*                               offset of the next byte of that stream
\*   ready                       the calls whose awaited promise is settled,
\*                               in the order their continuations run
\*   reads                       the calls waiting for a read(), oldest first
\*   c[id]                       the call: pc, its frame index, offset and
\*                               size, the local bufLen of #readBytes, the
\*                               chunk its read() gets (<<>> when done), the
\*                               stream that read is on, whether the read was
\*                               rejected, the result and the bytes returned
IdleCall == [pc |-> "idle", hdr |-> -1, pos |-> 0, size |-> 0, bufLen |-> 0,
             chunk |-> <<>>, rgen |-> 0, rejected |-> FALSE, res |-> "none",
             got |-> <<>>]
Range(a, n) == Tuple([i \in 1..n |-> a + i - 1])
Other(id) == 3 - id

\* The call is over: it resolved to a frame decoded from bytes got, to null,
\* or it rejected.
Resolved(p, id, res, got) ==
  [p EXCEPT !.c[id].pc = "done", !.c[id].res = res, !.c[id].got = got]
\* await of a promise that is settled already
Settled(p, id) == [p EXCEPT !.c[id].pc = "seeked", !.ready = Append(p.ready, id)]

\* this.#streamReader.read(): the next chunk of the stream is this call's
\* (none once the stream is done or the reader cancelled); pc tells where
\* #readBytes waits.
readCall(p, id, pc) ==
  IF p.reader = "none" THEN Resolved(p, id, "error", <<>>)
  ELSE [p EXCEPT !.c[id].pc = pc, !.c[id].rgen = p.gen, !.c[id].rejected = FALSE,
                 !.c[id].chunk =
                   IF p.reader = "closed" THEN <<>>
                   ELSE Range(p.streamPos, ChunkLen([streamPos |-> p.streamPos], p.src)),
                 !.streamPos =
                   IF p.reader = "closed" THEN p.streamPos
                   ELSE p.streamPos + ChunkLen([streamPos |-> p.streamPos], p.src),
                 !.reads = Append(p.reads, id)]
\* #readBytes from `let bufLen = this.#bufBytes.byteLength` on: another
\* read(), or the bytes returned, #ensureReadBytes and the decoding.
readBytesLoop(p, id) ==
  IF p.bufNull THEN Resolved(p, id, "error", <<>>)
  ELSE IF p.c[id].size > Len(p.buf)
  THEN readCall([p EXCEPT !.c[id].bufLen = Len(p.buf)], id, "readN")
  ELSE IF p.c[id].size = Len(p.buf)
  THEN Resolved([p EXCEPT !.bufPos = p.bufPos + Len(p.buf), !.bufNull = TRUE, !.buf = <<>>],
                id, "frame", p.buf)
  ELSE Resolved([p EXCEPT !.bufPos = p.bufPos + p.c[id].size,
                          !.buf = SubSeq(p.buf, p.c[id].size + 1, Len(p.buf))],
                id, "frame", SubSeq(p.buf, 1, p.c[id].size))
\* #ensureReadBytes(frameHeader.size) up to its first read()
readBytesStart(p, id) ==
  IF p.reader = "none" \/ p.c[id].size < 1 THEN Resolved(p, id, "error", <<>>)
  ELSE IF p.bufNull THEN readCall(p, id, "read0")
  ELSE readBytesLoop(p, id)
\* The first read() of #readBytes has resolved.
readFirst(p, id) ==
  IF p.c[id].rejected \/ p.c[id].chunk = <<>> THEN Resolved(p, id, "error", <<>>)
  ELSE readBytesLoop([p EXCEPT !.bufNull = FALSE, !.buf = p.c[id].chunk], id)
\* A read() of the loop has resolved: at the end of the stream the buffer is
\* returned and #bufPos moved by the local bufLen; else the chunk is put
\* behind the first bufLen bytes of a new buffer.
readMore(p, id) ==
  IF p.c[id].rejected THEN Resolved(p, id, "error", <<>>)
  ELSE IF p.c[id].chunk = <<>>
  THEN Resolved([p EXCEPT !.bufPos = p.bufPos + p.c[id].bufLen, !.bufNull = TRUE,
                          !.buf = <<>>],
                id, IF ~p.bufNull /\ Len(p.buf) = p.c[id].size THEN "frame" ELSE "error",
                p.buf)
  ELSE IF p.bufNull \/ Len(p.buf) > p.c[id].bufLen + Len(p.c[id].chunk)
  THEN Resolved(p, id, "error", <<>>)
  ELSE readBytesLoop(
         [p EXCEPT !.buf = Tuple([i \in 1..(p.c[id].bufLen + Len(p.c[id].chunk)) |->
                                    IF i > p.c[id].bufLen THEN p.c[id].chunk[i - p.c[id].bufLen]
                                    ELSE IF i <= Len(p.buf) THEN p.buf[i] ELSE -1])],
         id)

\* The end of #seek: a new stream of the Blob from pos.
newStream(p, id) ==
  Settled([p EXCEPT !.reader = "live", !.gen = p.gen + 1, !.streamPos = p.c[id].pos,
                    !.bufPos = p.c[id].pos, !.bufNull = TRUE, !.buf = <<>>], id)
\* #seek(frameHeader.offset) up to its return or to await cancel(); closes
\* tells whether a read() of the other call that is waiting on the reader
\* resolves as done rather than with the chunk it was given.
seekStart(p, id, closes) ==
  IF ~p.bufNull /\ p.c[id].pos = p.bufPos THEN Settled(p, id)
  ELSE IF ~p.bufNull /\ p.c[id].pos > p.bufPos /\ p.c[id].pos < p.bufPos + Len(p.buf)
  THEN Settled([p EXCEPT !.buf = SubSeq(p.buf, p.c[id].pos - p.bufPos + 1, Len(p.buf)),
                         !.bufPos = p.c[id].pos], id)
  ELSE IF p.reader # "none"
  THEN [p EXCEPT !.c[id].pc = "cancel", !.reader = "closed",
                 !.c[Other(id)].chunk =
                   IF closes /\ p.c[Other(id)].pc \in {"read0", "readN"}
                      /\ p.c[Other(id)].rgen = p.gen
                   THEN <<>> ELSE p.c[Other(id)].chunk]
  ELSE newStream(p, id)
\* getNextFrame up to its first await
getNextFrameStart(p, id, closes) ==
  IF p.curFrame + 1 >= Len(p.frames) THEN Resolved(p, id, "null", <<>>)
  ELSE seekStart([p EXCEPT !.curFrame = p.curFrame + 1,
                           !.c[id].hdr = p.curFrame + 1,
                           !.c[id].pos = p.frames[p.curFrame + 2].offset,
                           !.c[id].size = p.frames[p.curFrame + 2].size,
                           !.overlap = p.overlap \/ p.c[Other(id)].pc \notin {"idle", "done"}],
                 id, closes)
\* #seek after await cancel(): releaseLock() on the reader the decoder holds
\* now, then the new stream.  When that reader is one the other call made
\* and is waiting on, the read is rejected, or was served already, or
\* releaseLock() throws: how tells which.
seekResume(p, id, how) ==
  IF p.reader = "live" /\ p.c[Other(id)].pc \in {"read0", "readN"}
     /\ p.c[Other(id)].rgen = p.gen /\ how # "served"
  THEN IF how = "throws" THEN Resolved(p, id, "error", <<>>)
       ELSE newStream([p EXCEPT !.c[Other(id)].rejected = TRUE], id)
  ELSE newStream(p, id)

\* Sources of two frames behind a header of HeadLen bytes; the decoder has
\* read the header.
HeadLen == 2
PairFrames(s0, s1) ==
  <<[offset |-> HeadLen, size |-> s0], [offset |-> HeadLen + s0, size |-> s1]>>
Opened2(src, frames, rd) ==
  [fn |-> "pair", src |-> src, frames |-> frames, curFrame |-> -1,
   bufNull |-> rd.io.bufLen = NullBuf,
   buf |-> IF rd.io.bufLen = NullBuf THEN <<>> ELSE Range(rd.io.bufAbs, rd.io.bufLen),
   bufPos |-> rd.io.bufPos, reader |-> "live", gen |-> 1, streamPos |-> rd.io.streamPos,
   ready |-> <<>>, reads |-> <<>>, overlap |-> FALSE,
   c |-> [id \in {1, 2} |-> IdleCall]]
InitPair ==
  /\ Idle
  /\ \E s0 \in 1..MaxChunk, s1 \in 1..MaxChunk, ch \in 1..(MaxChunk + 1) :
       unit = Opened2([len |-> HeadLen + s0 + s1, chunk |-> ch], PairFrames(s0, s1),
                      ensureReadBytes(seek(InitIO, 0), HeadLen,
                                      [len |-> HeadLen + s0 + s1, chunk |-> ch]))
\* decoder.getNextFrame() is called, the second time after the first.
CallStart ==
  /\ unit.fn = "pair"
  /\ \E id \in {1, 2}, closes \in BOOLEAN :
       /\ unit.c[id].pc = "idle"
       /\ id = 2 => unit.c[1].pc # "idle"
       /\ unit' = getNextFrameStart(unit, id, closes)
  /\ UNCHANGED mainVars
\* The continuation of the call that has waited longest on a settled
\* promise runs.
CallContinue ==
  /\ unit.fn = "pair" /\ unit.ready # <<>>
  /\ unit' = readBytesStart([unit EXCEPT !.ready = Tail(unit.ready)], Head(unit.ready))
  /\ UNCHANGED mainVars
\* A read() resolves, oldest first on each stream, once no continuation is
\* left to run.
NotBehind(p, id) ==
  \A k \in 1..Len(p.reads) :
     (p.reads[k] # id /\ p.c[p.reads[k]].rgen = p.c[id].rgen)
     => \E j \in 1..(k - 1) : p.reads[j] = id
ReadResolved(id, rest) ==
  unit' = IF unit.c[id].pc = "read0" THEN readFirst(rest, id) ELSE readMore(rest, id)
CallRead ==
  /\ unit.fn = "pair" /\ unit.ready = <<>>
  /\ \E id \in {1, 2} :
       /\ unit.c[id].pc \in {"read0", "readN"}
       /\ NotBehind(unit, id)
       /\ ReadResolved(id, [unit EXCEPT !.reads = SelectSeq(unit.reads, LAMBDA x : x # id)])
  /\ UNCHANGED mainVars
\* cancel() resolves.
CallCancelled ==
  /\ unit.fn = "pair" /\ unit.ready = <<>>
  /\ \E id \in {1, 2}, how \in {"rejects", "served", "throws"} :
       /\ unit.c[id].pc = "cancel"
       /\ unit' = seekResume(unit, id, how)
  /\ UNCHANGED mainVars
NextPair == CallStart \/ CallContinue \/ CallRead \/ CallCancelled
SpecPair == InitPair /\ [][NextPair]_vars

\* decode(data) on payloads of 0..MaxPayload bytes by decoders with a frame
\* of PacketFrameLen coefficients (the loops are the same for the frame
\* lengths 512..16384 of the constructor) and every band table the
\* constructor can build: 2 first, frameLen last, even values below frameLen
\* between.  Every read may return every value: run lengths from RunLengths
\* (the table is not part of the sources; its entries are taken to be
\* positive), widths from Widths, and sign bits for none or all of the
\* coefficients of a run.
PacketFrameLen == 8
RunLengths == {1, 64}
Widths == {0, 3}
BandTables ==
  {<<2, PacketFrameLen>>}
  \cup {<<2, b, PacketFrameLen>> : b \in {0, 6}}
  \cup {<<2, 4, 6, PacketFrameLen>>}
InitPacket ==
  /\ Idle
  /\ unit \in {[fn |-> "packet", len |-> n, frameLen |-> PacketFrameLen, bands |-> b,
                numBands |-> Len(b) - 1, useDCT |-> dct,
                numInternalChannels |-> IF dct THEN nc ELSE 1,
                pc |-> "top", pos |-> 0, start |-> 0, ch |-> 0, i |-> 0, k |-> 0,
                blocks |-> 0] :
                 n \in 0..MaxPayload, b \in BandTables, nc \in {1, 2}, dct \in BOOLEAN}
BlockStart ==
  /\ unit.fn = "packet" /\ unit.pc = "top"
  /\ unit' = blockStart(unit, unit)
  /\ UNCHANGED mainVars
CoeffRun ==
  /\ unit.fn = "packet" /\ unit.pc = "run" /\ unit.i < unit.frameLen
  /\ \E coded \in BOOLEAN, width \in Widths :
       \E length \in IF coded THEN RunLengths ELSE {8} :
          \E signs \in {0, runEnd(unit.i, length, unit.frameLen) - unit.i} :
             unit' = coeffRun(unit, unit, coded, length, width, signs)
  /\ UNCHANGED mainVars
ChannelEnd ==
  /\ unit.fn = "packet" /\ unit.pc = "run" /\ unit.i >= unit.frameLen
  /\ unit' = channelEnd(unit, unit)
  /\ UNCHANGED mainVars
NextPacket == BlockStart \/ CoeffRun \/ ChannelEnd
SpecPacket == InitPacket /\ [][NextPacket]_vars /\ WF_vars(NextPacket)

\* ------------------------------------------------------------------ claims
\* Files the claims call valid: the source delivers every byte, every frame
\* starts on an even offset (bit 0 of a table entry is the keyframe flag) and
\* every block type and sub-block type is one a handler exists for.
DecodableOp(op) ==
  \/ op.type \in {BIK_BLOCK_TYPE_SKIP, BIK_BLOCK_TYPE_MOTION, BIK_BLOCK_TYPE_FILL}
  \/ op.type = BIK_BLOCK_TYPE_SCALED /\ op.sub \in ValidSubBlockTypes
WellFormed(f) ==
  /\ f.len = FullLen(f)
  /\ \A k \in 1..f.numFrames : f.frames[k].size % 2 = 0
  /\ \A k \in 1..f.numFrames : \A j \in 1..Len(f.frames[k].planes) :
       \A i \in 1..Len(f.frames[k].planes[j]) : DecodableOp(f.frames[k].planes[j][i])
\* Sub-versions d, f, g, h, i.
SupportedLetters == {100, 102, 103, 104, 105}
SupportedFile(f) == f.magic24 = MagicBIK /\ f.subVersion \in SupportedLetters

\* The video decoder of a freshly opened decoder after frames 1..k of f, each
\* decoded into a newly allocated frame, and the yuv of frame k it returns.
RECURSIVE FreshDecoderAfter(_, _)
FreshDecoderAfter(f, k) ==
  IF k = 0
  THEN NewVideoDecoder(f.width, f.height, f.subVersion, f.hasAlpha, f.subVersion > 103)
  ELSE decodeFrame_(FreshDecoderAfter(f, k - 1), f.frames[k].planes, <<>>).vd
FreshYuv(f, k) ==
  decodeFrame_(FreshDecoderAfter(f, k - 1), f.frames[k].planes, <<>>).frame.yuv

\* C1: on a freshly opened decoder of a supported, valid file of N frames
\* whose source delivers every byte, the k-th getNextFrame() call, k <= N,
\* returns frame k - 1 of the file and every later call returns null.
C1_FramesThenNull ==
  (phase = "open" /\ plain /\ last.op = "getNextFrame"
     /\ SupportedFile(file) /\ WellFormed(file))
  => IF calls <= file.numFrames
     THEN /\ last.res.kind = "frame"
          /\ last.res.idx = calls - 1
          /\ last.res.videoFrame[1].yuv = FreshYuv(file, calls)
     ELSE last.res.kind = "null"
C1_Witness ==
  /\ phase = "open" /\ plain /\ last.op = "getNextFrame"
  /\ SupportedFile(file) /\ WellFormed(file)
  /\ file.numFrames = MaxFrames /\ calls = file.numFrames + 1
  /\ last.res.kind = "null" /\ returned = FreshYuv(file, file.numFrames)

\* C2: after reset(), the frames decoded again from frame 0 have yuv buffers
\* byte-for-byte equal to the ones a freshly opened decoder produces for the
\* same frames of the same valid file.
C2_ResetReplaysVideo ==
  (phase = "open" /\ wasReset /\ last.op = "getNextFrame" /\ last.res.kind = "frame"
     /\ SupportedFile(file) /\ WellFormed(file))
  => last.res.videoFrame[1].yuv = FreshYuv(file, last.res.idx + 1)

\* The blocks a freshly opened decoder returns for track i of frame k: its
\* audio decoder has decoded the track's payloads of frames 1..k - 1.
RECURSIVE FreshAudioDecoderAfter(_, _, _)
FreshAudioDecoderAfter(f, k, i) ==
  IF k = 0 THEN NewAudioDecoder
  ELSE decode(FreshAudioDecoderAfter(f, k - 1, i), f.frames[k].segs[i].blocks, <<>>).ad
FreshBlocks(f, k, i) ==
  decode(FreshAudioDecoderAfter(f, k - 1, i), f.frames[k].segs[i].blocks, <<>>).blocks

\* C3: after reset(), every track's audio blocks of the replayed frames are
\* equal to the blocks of the first pass, the first block being produced
\* without overlap mixing as on a freshly opened decoder.
C3_ResetReplaysAudio ==
  (phase = "open" /\ wasReset /\ last.op = "getNextFrame" /\ last.res.kind = "frame"
     /\ SupportedFile(file) /\ WellFormed(file))
  => \A i \in 1..Len(last.res.audioTracks) :
       last.res.audioTracks[i].blocks = FreshBlocks(file, last.res.idx + 1, i)

\* Headers that parse but are not supported: version 2, or version 1 with a
\* sub-version outside d, f, g, h, i.
UnsupportedFile(f) == VersionOf(f.magic24) \in {1, 2} /\ ~SupportedFile(f)

C5_RevisionsCToI ==
  (phase = "open" /\ file.magic24 = MagicBIK /\ file.subVersion \in 99..105
     /\ WellFormed(file))
  => /\ dec.isSupported
     /\ (plain /\ last.op = "getNextFrame" /\ calls <= file.numFrames)
          => last.res.kind = "frame"

C7_YuvLength ==
  (last.op = "getNextFrame" /\ last.res.kind = "frame")
  => Len(last.res.videoFrame[1].yuv) =
       file.width * file.height * (IF file.hasAlpha THEN 2 ELSE 1)
         + 2 * CeilDiv(file.width, 2) * CeilDiv(file.height, 2)
C7_Witness ==
  /\ last.op = "getNextFrame" /\ last.res.kind = "frame" /\ last.reuse
  /\ file.width = 3 /\ file.height = 1 /\ file.hasAlpha
  /\ Len(last.res.videoFrame[1].yuv) = 10

\* C8: in every returned video frame lineSize is [W, ceil(W/2), ceil(W/2), W]
\* and each plane was written with its lineSize entry as row stride.
C8_LineSizeCeil ==
  (last.op = "getNextFrame" /\ last.res.kind = "frame")
  => /\ last.res.videoFrame[1].lineSize =
          <<file.width, CeilDiv(file.width, 2), CeilDiv(file.width, 2), file.width>>
     /\ \A p \in 1..4 :
          last.res.strides[p] # -1
            => last.res.strides[p] = last.res.videoFrame[1].lineSize[p]

C10_FrameSlicing ==
  (last.op = "getNextFrame" /\ last.res.kind = "frame" /\ WellFormed(file)
     /\ AudioBytes(file.frames[last.res.idx + 1]) <= file.frames[last.res.idx + 1].size)
  => LET fr == file.frames[last.res.idx + 1]
     IN  /\ Len(last.res.tracks) = Len(fr.segs)
         /\ \A i \in 1..Len(fr.segs) :
              /\ last.res.tracks[i].size = fr.segs[i].size
              /\ IF fr.segs[i].size > 4
                 THEN last.res.tracks[i].bytes =
                        [lo |-> SegStart(fr, i) + 8,
                         hi |-> SegStart(fr, i) + 8 + (fr.segs[i].size - 4)]
                 ELSE last.res.tracks[i].bytes.hi = last.res.tracks[i].bytes.lo
         /\ last.res.video = [lo |-> fr.size - (fr.size - AudioBytes(fr)), hi |-> fr.size]
         /\ last.res.video.hi - last.res.video.lo = fr.size - AudioBytes(fr)
C10_Witness ==
  /\ last.op = "getNextFrame" /\ last.res.kind = "frame" /\ WellFormed(file)
  /\ Len(last.res.tracks) = 2
  /\ last.res.tracks[1].size = 3 /\ last.res.tracks[2].size = 8
  /\ last.res.tracks[2].bytes = [lo |-> 15, hi |-> 19]
  /\ last.res.video = [lo |-> 19, hi |-> 24]


\* C11: with frameLen = 2^frameBits (9, 10 or 11 for a sample rate below
\* 22050, below 44100, otherwise; plus ceil(log2(numChannels)) for a non-DCT
\* track) and overlapLen = frameLen/16, every block of a DCT track holds
\* numChannels arrays of frameLen - overlapLen samples and every block of a
\* stereo IRDFT track holds 2 arrays of (frameLen - overlapLen)/2 samples.
C11_Samples(u) ==
  2 ^ ((IF u.sampleRate < 22050 THEN 9 ELSE IF u.sampleRate < 44100 THEN 10 ELSE 11)
         + (IF u.useDCT THEN 0 ELSE CeilLog2(u.numChannels)))
    - (2 ^ ((IF u.sampleRate < 22050 THEN 9 ELSE IF u.sampleRate < 44100 THEN 10 ELSE 11)
              + (IF u.useDCT THEN 0 ELSE CeilLog2(u.numChannels)))) \div 16
C11_BlockLengths ==
  unit.fn = "audio" =>
    \A b \in 1..Len(unit.out) :
      /\ unit.useDCT =>
           /\ Len(unit.out[b]) = unit.numChannels
           /\ \A ch \in 1..Len(unit.out[b]) : unit.out[b][ch] = C11_Samples(unit)
      /\ (~unit.useDCT /\ unit.numChannels = 2) =>
           /\ Len(unit.out[b]) = 2
           /\ \A ch \in 1..Len(unit.out[b]) : 2 * unit.out[b][ch] = C11_Samples(unit)
C11_Witness ==
  /\ unit.fn = "audio" /\ ~unit.useDCT /\ unit.numChannels = 2
  /\ unit.sampleRate = 44100 /\ unit.packets = 2
  /\ unit.out = << <<1920, 1920>>, <<1920, 1920>> >>


\* The decoder after k getNextFrame() calls in a row.
RECURSIVE AfterGets(_, _, _)
AfterGets(d, f, k) ==
  IF k <= 0 THEN d ELSE AfterGets(getNextFrame(d, f, <<>>).d, f, k - 1)

\* C12: on a supported, valid file of N frames, skipFrames(k) called when the
\* next frame to decode is c resolves without error and leaves the decoder as
\* k getNextFrame() calls in a row leave it, so that the next getNextFrame()
\* returns frame c + k, or null when c + k >= N; with k <= 0 the decoder and
\* the caller's frame are left as they were.
C12_SkipAdvances ==
  [][(phase = "open" /\ SupportedFile(file) /\ WellFormed(file)
        /\ last'.op = "skipFrames" /\ calls' = calls + 1)
     => /\ last'.ok
        /\ dec' = AfterGets(dec, file, last'.arg)
        /\ dec'.curFrame = Min(dec.curFrame + Max(last'.arg, 0), file.numFrames - 1)
        /\ IF dec.curFrame + 1 + Max(last'.arg, 0) < file.numFrames
           THEN /\ getNextFrame(dec', file, <<>>).res.kind = "frame"
                /\ getNextFrame(dec', file, <<>>).res.idx = dec.curFrame + 1 + Max(last'.arg, 0)
           ELSE getNextFrame(dec', file, <<>>).res.kind = "null"
        /\ last'.arg <= 0 => (dec' = dec /\ held' = held /\ returned' = returned)]_vars
C12_Witness ==
  /\ phase = "open" /\ SupportedFile(file) /\ WellFormed(file)
  /\ file.numFrames = 2 /\ calls = 2
  /\ last.op = "skipFrames" /\ last.arg = 2 /\ last.ok
  /\ dec.curFrame = 1 /\ returned # before


\* The frame the caller holds with every yuv byte replaced by 0.
Blanked(frames) ==
  IF frames = <<>> THEN <<>>
  ELSE <<[frames[1] EXCEPT !.yuv = Zeros(Len(frames[1].yuv))]>>

\* C13: what the caller does to the yuv bytes of a frame it was given cannot
\* reach a later frame.  Overwriting the held frame leaves the decoder as it
\* was, and a getNextFrame() call given the held frame returns the yuv, and
\* leaves the decoder in the state, of the same call given that frame with
\* all its bytes replaced; so two runs that differ only in such overwrites
\* return the same yuv for every later frame.
C13_NoSharedStorage ==
  [][/\ (held' # held /\ calls' = calls) => (dec' = dec /\ returned' = returned)
     /\ (last'.op = "getNextFrame" /\ calls' = calls + 1 /\ last'.reuse)
        => /\ dec' = getNextFrame(dec, file, Blanked(held)).d
           /\ last'.res.kind = getNextFrame(dec, file, Blanked(held)).res.kind
           /\ last'.res.kind = "frame"
              => last'.res.videoFrame[1].yuv
                   = getNextFrame(dec, file, Blanked(held)).res.videoFrame[1].yuv]_vars
C13_Witness ==
  /\ last.op = "getNextFrame" /\ last.reuse /\ last.res.kind = "frame"
  /\ last.res.idx = 1 /\ last.res.allSkip
  /\ returned = before /\ returned # Zeros(Len(returned))
  /\ returned # Scribbled(Len(returned))


\* A payload whose decode takes a value no handler exists for: every plane
\* before plane j holds only decodable blocks and the first block of plane j,
\* which lies on block row 0, has a block type outside 0..9 or is SCALED with
\* a sub-block type other than 3, 5, 6, 8, 9.
CorruptOp(op) ==
  \/ op.type \notin 0..9
  \/ op.type = BIK_BLOCK_TYPE_SCALED /\ op.sub \notin {3, 5, 6, 8, 9}
TakesCorruptValue(planes, numCoded) ==
  \E j \in 1..Min(Len(planes), numCoded) :
    /\ planes[j] # <<>> /\ CorruptOp(planes[j][1])
    /\ \A i \in 1..(j - 1) : \A n \in 1..Len(planes[i]) : DecodableOp(planes[i][n])

\* C14: when the frame a getNextFrame() call decodes takes a block type
\* outside 0..9, or a sub-block type other than 3, 5, 6, 8, 9 for a SCALED
\* block on an even block row, the call rejects and returns no frame.
C14_CorruptRejects ==
  [][(phase = "open" /\ dec.isSupported /\ file.len = FullLen(file)
        /\ last'.op = "getNextFrame" /\ calls' = calls + 1
        /\ dec.curFrame + 1 < file.numFrames
        /\ file.frames[dec.curFrame + 2].size % 2 = 0
        /\ (\A k \in 1..(dec.curFrame + 1) : file.frames[k].size % 2 = 0)
        /\ TakesCorruptValue(file.frames[dec.curFrame + 2].planes,
                             IF file.hasAlpha THEN 4 ELSE 3))
     => /\ ~last'.ok
        /\ last'.res.kind = "error"
        /\ last'.res.videoFrame = <<>>
        /\ returned' = returned]_vars
C14_Witness ==
  /\ phase = "open" /\ last.op = "getNextFrame" /\ ~last.ok /\ last.res.kind = "error"
  /\ file.height = 9 /\ file.numFrames = 2 /\ dec.curFrame = 1 /\ calls = 2
  /\ file.frames[1].planes = <<<<Skip, Scaled(4, 0)>>, <<Skip>>, <<Skip>>>>
  /\ file.frames[2].planes = <<<<Scaled(4, 0)>>, <<Skip>>, <<Skip>>>>
  /\ before = Zeros(Len(before)) /\ returned = before


\* C15: whatever the chunks the source is delivered in, open() rejects when
\* the stream ends before the fixed header, the audio-track table and the
\* frame-offset table are delivered, and a getNextFrame() call rejects when
\* the stream ends before the last byte of the frame it reads; neither
\* returns a decoder or a frame.
C15_ShortReadRejects ==
  [][/\ (phase = "new" /\ phase' # "new" /\ file.len < FramesStart(file))
        => (phase' = "failed" /\ ~last'.ok)
     /\ (phase = "open" /\ dec.isSupported
           /\ last'.op = "getNextFrame" /\ calls' = calls + 1
           /\ dec.curFrame + 1 < file.numFrames
           /\ (\A k \in 1..file.numFrames : file.frames[k].size % 2 = 0)
           /\ file.len < FrameOffset(file, dec.curFrame + 2))
        => (~last'.ok /\ last'.res.kind = "error" /\ last'.res.videoFrame = <<>>)]_vars
C15_Witness ==
  /\ phase = "open" /\ last.op = "getNextFrame" /\ ~last.ok /\ calls = 2
  /\ file.numFrames = 2 /\ file.chunk = 5
  /\ file.len > FrameOffset(file, 1) /\ file.len = FullLen(file) - 1
  /\ returned # <<>> /\ dec.curFrame = 1


\* Bit p of the stream: bit p mod 8 of byte p div 8, and 0 past the end.
StreamBit(buffer, p) == (ByteAt(buffer, p \div 8) \div (2 ^ (p % 8))) % 2
\* The 16-bit number whose bit i is stream bit p + i for i < k, k <= 16.
StreamWord(buffer, p, k) ==
  SumSeq([i \in 1..k |-> StreamBit(buffer, p + i - 1) * (2 ^ (i - 1))])

\* C16: for every buffer, bit position and n in 0..32, readBits(n) returns
\* the unsigned integer whose bit i, i < n, is stream bit pos + i (bytes in
\* order, least significant bit first, bits past the end 0) and advances the
\* position by n bits.
C16_ReadBits ==
  (unit.fn = "bits" /\ unit.op = "read")
  => /\ unit.value >= 0
     /\ unit.value % 65536 = StreamWord(unit.buffer, unit.from, Min(unit.n, 16))
     /\ unit.value \div 65536
          = StreamWord(unit.buffer, unit.from + 16, Max(unit.n - 16, 0))
     /\ tell_(unit) = unit.from + unit.n


\* C17: for every 32-bit frame-table entry r, values of 2^31 and above
\* included, the frame header has offset = r with bit 0 cleared, a number in
\* 0..2^32 - 2, keyframe = bit 0 of r, and size = the next entry with bit 0
\* cleared minus offset, and getNextFrame seeks to that offset.
C17_FrameTable ==
  (unit.fn = "table" /\ unit.header # <<>>)
  => /\ unit.header[1].offset = [hi |-> unit.raw.hi, lo |-> unit.raw.lo - (unit.raw.lo % 2)]
     /\ unit.header[1].keyframe = (unit.raw.lo % 2 = 1)
     /\ unit.header[1].size
          = NumSub([hi |-> unit.next.hi, lo |-> unit.next.lo - (unit.next.lo % 2)],
                   [hi |-> unit.raw.hi, lo |-> unit.raw.lo - (unit.raw.lo % 2)])
     /\ unit.seeks = 1
        => unit.sought = <<[hi |-> unit.raw.hi, lo |-> unit.raw.lo - (unit.raw.lo % 2)]>>


\* The bytes of plane slot planeIndex of a frame of file f.
PlaneSlot(yuv, f, planeIndex) ==
  SubSeq(yuv, planeOffsetOf(f, planeIndex) + 1,
         planeOffsetOf(f, planeIndex) + planeLenOf(f, planeIndex))
\* hasSwappedUVPlanes is true exactly above sub-version letter, and when it
\* is true the frame returned for a file of three filled planes has the fill
\* of the second coded plane in slot 2 and that of the third in slot 1.
SwappedAbove(letter) ==
  (phase = "open" /\ dec.header # NoHeader)
  => /\ dec.header[1].hasSwappedUVPlanes = (file.subVersion > letter)
     /\ (dec.header[1].hasSwappedUVPlanes /\ file \in SwapFiles
           /\ last.op = "getNextFrame" /\ last.res.kind = "frame")
        => /\ PlaneSlot(returned, file, 2) = <<file.frames[1].planes[2][1].v>>
           /\ PlaneSlot(returned, file, 1) = <<file.frames[1].planes[3][1].v>>

\* C18 as stated: hasSwappedUVPlanes is true exactly when the sub-version is
\* above 'c', so for d, f, g, h and i, and when it is true the second coded
\* colour plane is written into plane slot 2 and the third into slot 1.
C18_SwappedAboveC == SwappedAbove(99)

\* C18, amended: hasSwappedUVPlanes is true exactly when the sub-version is
\* above 'g', so for h and i among the supported revisions and not for d, f
\* and g, and when it is true the second coded colour plane is written into
\* plane slot 2 and the third into slot 1.
C18_SwappedAboveG == SwappedAbove(103)
C18_Witness ==
  /\ phase = "open" /\ file \in SwapFiles /\ file.subVersion = 104
  /\ dec.header[1].hasSwappedUVPlanes
  /\ last.op = "getNextFrame" /\ last.res.kind = "frame"
  /\ returned = <<1, 1, 1, 1, 3, 2>>


\* decodeFrame_ steps over 32 bits ahead of the alpha plane, when there is
\* one, and over 32 bits ahead of the Y plane exactly for the sub-versions
\* above letter, and over nothing for the others.
SkipsAbove(letter) ==
  (unit.fn = "planes" /\ unit.starts # <<>>)
  => LET s == IF unit.version > letter THEN 32 ELSE 0
     IN  IF unit.hasAlpha
         THEN /\ unit.starts[1].alpha = <<s>>
              /\ unit.starts[1].luma = s + 32 * ((unit.alphaBits + 31) \div 32) + s
         ELSE /\ unit.starts[1].alpha = <<>>
              /\ unit.starts[1].luma = s

\* C19 as stated: decodeFrame skips 32 bits before the alpha plane and 32
\* bits before the Y plane exactly when the sub-version is above 'd', so for
\* f, g, h and i, and skips nothing for d.
C19_SkipsAboveD == SkipsAbove(100)

\* C19, amended: decodeFrame skips 32 bits before the alpha plane (when
\* hasAlpha) and 32 bits before the Y plane exactly when the sub-version is
\* above 'h', so for revision i only among the supported ones, and skips
\* nothing for d, f, g and h.
C19_SkipsAboveH == SkipsAbove(104)
C19_Witness ==
  /\ unit.fn = "planes" /\ unit.version = 105 /\ unit.hasAlpha /\ unit.alphaBits = 33
  /\ unit.starts = <<[alpha |-> <<32>>, luma |-> 128]>>


\* The COLORS row reader stores (v > 127 ? 256 - v : v + 128) for each
\* decoded byte v when the sub-version is below letter and v itself
\* otherwise; from is where the row's items start.
RemapBelow(letter, from) ==
  \A i \in 1..unit.count :
    unit.items[from + i]
      = (LET v == unit.raw[IF unit.isRun THEN 1 ELSE i]
         IN  IF unit.version < letter THEN (IF v > 127 THEN 256 - v ELSE v + 128) ELSE v)

\* C20 as stated: the COLORS row reader replaces each decoded colour byte v
\* by (v > 127 ? 256 - v : v + 128) exactly when the sub-version is below
\* 'e', so for revision d only, and stores v unchanged for every other one.
C20_RemapBelowE ==
  (unit.fn = "colors" /\ unit.done) => RemapBelow(101, unit.curDec - unit.count)

\* C20, amended: the COLORS row reader replaces each decoded colour byte v
\* (0..255) by (v > 127 ? 256 - v : v + 128) exactly when the sub-version is
\* below 'i', so for revisions d, f, g and h among the supported ones, and
\* stores v unchanged for revision i; the earlier form of the step, with a
\* sign mask, gives the same byte.
C20_RemapBelowI ==
  /\ (unit.fn = "colors" /\ unit.done) => RemapBelow(105, unit.curDec - unit.count)
  /\ unit.fn = "colors"
     => \A i \in 1..Len(unit.raw) :
          remapColorSigned(unit.version, unit.raw[i])
            = (IF unit.version < 105
               THEN (IF unit.raw[i] > 127 THEN 256 - unit.raw[i] ELSE unit.raw[i] + 128)
               ELSE unit.raw[i])
C20_Witness ==
  /\ unit.fn = "colors" /\ unit.done /\ unit.version = 104
  /\ ~unit.isRun /\ unit.raw = <<200, 55>> /\ unit.curDec = 3
  /\ unit.items = <<0, 56, 183>>


\* A getNextFrame() call made by the caller is the step taken.
GetStep == last'.op = "getNextFrame" /\ calls' = calls + 1

\* C26: the frame cursor stays in -1 .. numFrames - 1.  Once getNextFrame()
\* has returned null at the end of the video the cursor is on the last frame,
\* only reset() moves the cursor back, and with the cursor on the last frame
\* getNextFrame() returns null and leaves it there: so every later
\* getNextFrame() returns null until reset().  With the cursor at -1, where
\* reset() puts it, getNextFrame() takes frame 0, and returns it when the
\* file is valid.
C26_CursorInRange ==
  [][phase' = "open"
     => /\ dec'.curFrame >= -1
        /\ dec'.curFrame <= Max(file.numFrames - 1, -1)
        /\ (last'.op = "getNextFrame" /\ last'.res.kind = "null" /\ dec'.isSupported)
           => dec'.curFrame = file.numFrames - 1
        /\ (phase = "open" /\ dec'.curFrame < dec.curFrame)
           => (dec' = reset(dec) /\ last'.op = "reset")
        /\ last'.op = "reset" => dec'.curFrame = -1
        /\ (GetStep /\ dec.isSupported /\ dec.curFrame = file.numFrames - 1)
           => (last'.res.kind = "null" /\ dec'.curFrame = dec.curFrame)
        /\ (GetStep /\ dec.isSupported /\ dec.curFrame = -1 /\ file.numFrames > 0)
           => /\ dec'.curFrame = 0
              /\ WellFormed(file) => (last'.res.kind = "frame" /\ last'.res.idx = 0)]_vars
C26_Witness ==
  /\ phase = "open" /\ SupportedFile(file) /\ WellFormed(file) /\ file.numFrames = 1
  /\ wasReset /\ calls = 3 /\ last.op = "getNextFrame"
  /\ last.res.kind = "frame" /\ last.res.idx = 0 /\ dec.curFrame = 0

\* C27: a getNextFrame() call that rejects leaves the frame cursor where it
\* was before the call, so that the next call attempts the same frame.
C27_RejectKeepsCursor ==
  [][(phase = "open" /\ GetStep /\ ~last'.ok) => dec'.curFrame = dec.curFrame]_vars


\* The plane slots in the order decodeFrame is to decode them in: alpha when
\* present, Y, then the two chroma planes.
PlaneOrder(vd) ==
  (IF vd.hasAlpha THEN <<3>> ELSE <<>>) \o <<0>>
    \o (IF vd.hasSwappedUVPlanes THEN <<2, 1>> ELSE <<1, 2>>)
\* A frame whose video payload holds n plane programs, each one FILL block,
\* decoded by vd into yuv with the strides recorded per decoded plane: the
\* j-th program went to the j-th plane of the order; the planes up to Y are
\* always decoded; a plane after a colour plane that used up the payload is
\* not decoded and holds what #prevData held.
PlanesInOrder(vd, planes, yuv, strides) ==
  \A j \in 1..Len(PlaneOrder(vd)) :
    LET p == PlaneOrder(vd)[j]
    IN  IF j <= Len(planes)
        THEN strides[p + 1] # -1 /\ PlaneSlot(yuv, vd, p)
               = Tuple([i \in 1..planeLenOf(vd, p) |-> planes[j][1].v])
        ELSE IF p = 0
        THEN strides[p + 1] # -1
        ELSE /\ strides[p + 1] = -1
             /\ PlaneSlot(yuv, vd, p) = PlaneSlot(prevView(vd), vd, p)

\* C22: decodeFrame decodes the planes in the order alpha (if present), Y,
\* then the two chroma planes, and once a colour plane has been decoded with
\* no bits left in the video payload the remaining planes are not decoded
\* and keep the previous frame's pixels.
C22_PlaneOrder ==
  [][(phase = "open" /\ GetStep /\ last'.res.kind = "frame" /\ file \in OrderFiles)
     => PlanesInOrder(dec.videoDecoder[1], file.frames[last'.res.idx + 1].planes,
                      last'.res.videoFrame[1].yuv, last'.res.strides)]_vars
C22_Witness ==
  /\ phase = "open" /\ file \in OrderFiles /\ file.hasAlpha /\ file.subVersion = 103
  /\ Len(file.frames[2].planes) = 2
  /\ last.op = "getNextFrame" /\ last.res.kind = "frame" /\ last.res.idx = 1
  /\ last.res.strides = <<2, -1, -1, 2>>
  /\ returned = <<6, 6, 6, 6, 3, 4, 5, 5, 5, 5>>


\* C23: after readTree, for every input bit sequence and on each of its
\* three paths, symbolMap holds every value 0..15 exactly once and the tree
\* is bound to the table whose index is the 4-bit tableNum read first.
C23_TreePermutation ==
  (unit.fn = "tree" /\ unit.tree # <<>>)
  => /\ Len(unit.tree[1].symbolMap) = 16
     /\ \A v \in 0..15 :
          Cardinality({i \in 1..16 : unit.tree[1].symbolMap[i] = v}) = 1
     /\ unit.tree[1].table = BitsAt(unit.bits, 0, 4)


\* C24: in decodePlane, for every coded width and height and every sequence
\* of block types, the destination pointer at the start of block row r is
\* 8 * r * stride, the first pixel of that row of blocks, and no row consumes
\* more than blockWidth block columns.
C24_RowStart ==
  unit.fn = "rows"
  => \A r \in 1..Len(unit.starts) :
       /\ unit.starts[r] = 8 * (r - 1) * lineSizeOf(unit.width)[unit.planeIndex + 1]
       /\ unit.cols[r] <= blockWidthOf(unit, unit.planeIndex)


\* C21: the row reader of a parameter stream reads the count, of len bits,
\* exactly when 0 <= curDec <= curPtr; with curDec > curPtr it reads no bits
\* and decodes nothing; once a count of 0 has been read curDec is -1 and no
\* row read of the same plane reads a bit, until the next plane sets curDec
\* and curPtr to 0.
C21_CountOnlyWhenDue ==
  [][unit.fn = "stream"
     => /\ unit'.op = "row"
           => /\ (unit.curDec >= 0 /\ unit.curDec <= unit.curPtr) <=> unit'.took >= unit.len
              /\ unit.curDec > unit.curPtr
                 => (unit'.took = 0 /\ unit'.curDec = unit.curDec)
              /\ unit.exhausted
                 => (unit'.took = 0 /\ unit'.curDec = -1 /\ unit'.exhausted)
              /\ (unit'.took >= unit.len /\ BitsAt(unit.bits, unit.pos, unit.len) = 0)
                 => (unit'.curDec = -1 /\ unit'.took = unit.len)
        /\ unit.exhausted => unit.curDec = -1
        /\ (unit.exhausted /\ ~unit'.exhausted)
           => (unit'.op = "plane" /\ unit'.curDec = 0 /\ unit'.curPtr = 0)]_vars
C21_Witness ==
  /\ unit.fn = "stream" /\ unit.planes = 1 /\ unit.rows = 3 /\ unit.op = "row"
  /\ unit.exhausted /\ unit.curDec = -1 /\ unit.curPtr = 3 /\ unit.took = 0
  /\ unit.pos = 2 * unit.len + 5 /\ Len(unit.bits) > unit.pos


\* C25: during readCoeffsOrResidue, in residue and in DCT mode, listStart
\* stays in 0..64 and listEnd in 68..128, every index used on coeffList and
\* modeList lies in 0..127, each scan index 0..63 is stored as a leaf at
\* most once and coeffCount never exceeds 64.
C25_ListsInBounds ==
  (unit.fn = "vm" /\ unit.pc # "begin")
  => /\ unit.listStart >= 0 /\ unit.listStart <= 64
     /\ unit.listEnd >= 68 /\ unit.listEnd <= 128
     /\ unit.used \subseteq 0..127
     /\ unit.listPos >= 0 /\ unit.listPos <= unit.listEnd
     /\ unit.emitted \subseteq 0..63
     /\ ~unit.dup
     /\ unit.coeffCount = Cardinality(unit.emitted)
     /\ unit.coeffCount <= 64
C25_Witness ==
  /\ unit.fn = "vm" /\ unit.isResidue /\ unit.pc = "done"
  /\ unit.listStart = 0 /\ unit.listEnd = 77 /\ unit.coeffCount = 64
  /\ unit.emitted = 0..63


\* C29: with #seek and #ensureReadBytes issued one at a time, on every
\* source and chunk size, a successful #ensureReadBytes(n) at logical
\* position p returns the source bytes [p, p + n) and leaves the position at
\* p + n, #seek(p) with p >= 0 leaves it at p, and bufPos is always the
\* source offset of the first buffered byte, or of the next unread byte of
\* the stream when nothing is buffered.
BufPosTrue(io) ==
  IF io.bufLen # NullBuf THEN io.bufPos = io.bufAbs /\ io.bufLen > 0
  ELSE io.bufPos = io.streamPos
C29_ByteLayer ==
  [][unit.fn = "bytes"
     => /\ (unit'.op = "read" /\ unit'.ok)
           => /\ unit'.at = unit.io.bufPos
              /\ unit.io.bufPos + unit'.arg <= unit.src.len
              /\ unit'.io.bufPos = unit.io.bufPos + unit'.arg
        /\ (unit'.op = "seek" /\ unit'.arg >= 0) => unit'.io.bufPos = unit'.arg
        /\ BufPosTrue(unit.io) /\ BufPosTrue(unit'.io)]_vars
C29_Witness ==
  /\ unit.fn = "bytes" /\ unit.src = [len |-> 6, chunk |-> 3]
  /\ unit.op = "read" /\ unit.ok /\ unit.arg = 2 /\ unit.at = 3
  /\ unit.io.bufPos = 5 /\ unit.io.bufLen = 1


\* C28: when getNextFrame() is called again before a pending call on the
\* same decoder resolved, the two calls resolve to the two consecutive
\* frames, each decoded from the bytes [offset, offset + size) of its own
\* frame entry, and the buffer position and the cursor are left as two calls
\* in a row leave them.
OwnFrame(p, id) ==
  /\ p.c[id].res = "frame"
  /\ p.c[id].hdr = id - 1
  /\ p.c[id].got = Range(p.frames[id].offset, p.frames[id].size)
C28_OverlapKeepsFrames ==
  (unit.fn = "pair" /\ unit.overlap /\ unit.c[1].pc = "done" /\ unit.c[2].pc = "done")
  => /\ OwnFrame(unit, 1) /\ OwnFrame(unit, 2)
     /\ unit.curFrame = 1
     /\ unit.bufPos = unit.src.len


\* C30: decoding an audio packet terminates for every payload and bit
\* content, with positive run lengths: the coefficient position i grows in
\* every turn of the run loop until it is frameLen, the band index k never
\* exceeds numBands, each block moves the bit position to a larger multiple
\* of 32, and the blocks returned are none for an empty payload and between
\* 1 and ceil(len / 4) for a payload of len >= 1 bytes.
PacketStep ==
  /\ (unit.pc = "run" /\ unit'.pc = "run" /\ unit'.ch = unit.ch)
     => (unit'.i > unit.i /\ unit'.i <= unit.frameLen)
  /\ unit'.pc # "hang"
  /\ unit'.k >= 0 /\ unit'.k <= unit.numBands
  /\ unit'.blocks = unit.blocks + 1
     => (unit'.pos % 32 = 0 /\ unit'.pos > unit'.start /\ unit'.start % 32 = 0)
  /\ unit'.blocks <= CeilDiv(unit.len, 4)
  /\ unit'.pc = "done"
     => (IF unit.len = 0 THEN unit'.blocks = 0 ELSE unit'.blocks >= 1)
C30_PacketEnds ==
  /\ [][unit.fn = "packet" => PacketStep]_vars
  /\ <>(unit.fn = "packet" => unit.pc = "done")
C30_Witness ==
  /\ unit.fn = "packet" /\ unit.pc = "done" /\ unit.len = 13 /\ unit.blocks = 2
  /\ unit.numInternalChannels = 1 /\ unit.numBands = 3 /\ unit.k = 3
  /\ unit.pos > 8 * unit.len

====
